---- MODULE Spec2Model ----
(***************************************************************************)
(* Verification model of the para-speak input-to-audio pipeline:           *)
(*   - the shortcut matcher and its engine (crates/core/shortcut-matcher)  *)
(*   - the audio recorder worker and its handle (crates/core/audio)        *)
(*   - the component registry broadcast (crates/integrations/cli)          *)
(*   - the controller glue (crates/integrations/cli/controller)            *)
(* Times are in milliseconds, as in the source.                            *)
(***************************************************************************)
EXTENDS Integers, Sequences, FiniteSets, TLC

(***************************************************************************)
(* Bounds of the model                                                     *)
(***************************************************************************)
\* the clock of the matcher engine stops advancing after this instant
MaxTime == 400
\* number of delayed-action ids the global counter may hand out
MaxDelayedIds == 3

None == "None"
NoTime == -1

(***************************************************************************)
(* types.rs                                                                *)
(***************************************************************************)
ShortcutAction == {"Start", "Stop", "Cancel", "Pause"}
ShortcutEngineState == {"Idle", "Active", "Paused"}

NoMatch == [kind |-> "NoMatch", action |-> None, wait_ms |-> 0]
Partial == [kind |-> "Partial", action |-> None, wait_ms |-> 0]
Complete(a) == [kind |-> "Complete", action |-> a, wait_ms |-> 0]
Delayed(a, w) == [kind |-> "Delayed", action |-> a, wait_ms |-> w]

Immediate == [kind |-> "Immediate", delay_ms |-> 0]
FireOnRelease == [kind |-> "FireOnRelease", delay_ms |-> 0]
DelayedFire(d) == [kind |-> "DelayedFire", delay_ms |-> d]

\* Instant::duration_since saturates at zero
duration_since(now, earlier) == IF now >= earlier THEN now - earlier ELSE 0

(***************************************************************************)
(* patterns/single.rs, patterns/double.rs, patterns/combo.rs               *)
(* A pattern is one record whose fields are the union of the three         *)
(* structs; `type` is get_type(), sequence[1] is get_trigger_key().        *)
(***************************************************************************)
NewPattern(type, sequence, timeout, action) ==
    [type |-> type, sequence |-> sequence, timeout_ms |-> timeout,
     action |-> action, conflict_strategy |-> Immediate,
     press_time |-> NoTime, first_press |-> NoTime,
     current_index |-> 0, held_keys |-> {}]

SingleKeyPattern_new(key, action) == NewPattern("Single", <<key>>, NoTime, action)
DoubleTapPattern_new(key, timeout_ms, action) == NewPattern("DoubleTap", <<key>>, timeout_ms, action)
ComboPattern_new(sequence, action) == NewPattern("Combo", sequence, NoTime, action)

get_trigger_key(p) == p.sequence[1]
\* Option<u64>: NoTime stands for None
get_timeout(p) == IF p.type = "DoubleTap" THEN p.timeout_ms ELSE NoTime

HoldLimitMs == 100

Single_process_key_press(p, key, now) ==
    IF key = p.sequence[1]
    THEN [p |-> [p EXCEPT !.press_time = now],
          r |-> CASE p.conflict_strategy.kind = "Immediate" -> Complete(p.action)
                  [] p.conflict_strategy.kind = "FireOnRelease" -> Partial
                  [] OTHER -> Delayed(p.action, p.conflict_strategy.delay_ms)]
    ELSE [p |-> p,
          r |-> IF p.press_time # NoTime /\ p.conflict_strategy.kind = "FireOnRelease"
                THEN Partial ELSE NoMatch]

\* a release that completes however long the key was held
Single_process_key_release_any_hold(p, key, now) ==
    IF key # p.sequence[1]
    THEN [p |-> p, r |-> NoMatch]
    ELSE [p |-> [p EXCEPT !.press_time = NoTime],
          r |-> IF p.conflict_strategy.kind = "FireOnRelease" /\ p.press_time # NoTime
                THEN Complete(p.action) ELSE NoMatch]

Single_process_key_release(p, key, now) ==
    IF key # p.sequence[1]
    THEN [p |-> p, r |-> NoMatch]
    ELSE [p |-> [p EXCEPT !.press_time = NoTime],
          r |-> IF /\ p.conflict_strategy.kind = "FireOnRelease"
                   /\ p.press_time # NoTime
                   /\ duration_since(now, p.press_time) < HoldLimitMs
                THEN Complete(p.action) ELSE NoMatch]

\* a window that excludes a press exactly timeout_ms after the first
Double_process_key_press_exclusive(p, key, now) ==
    IF key # p.sequence[1]
    THEN [p |-> p, r |-> NoMatch]
    ELSE IF p.first_press = NoTime
         THEN [p |-> [p EXCEPT !.first_press = now], r |-> Partial]
         ELSE IF duration_since(now, p.first_press) < p.timeout_ms
              THEN [p |-> [p EXCEPT !.first_press = NoTime], r |-> Complete(p.action)]
              ELSE [p |-> [p EXCEPT !.first_press = now], r |-> Partial]

Double_process_key_press(p, key, now) ==
    IF key # p.sequence[1]
    THEN [p |-> p, r |-> NoMatch]
    ELSE IF p.first_press = NoTime
         THEN [p |-> [p EXCEPT !.first_press = now], r |-> Partial]
         ELSE IF duration_since(now, p.first_press) <= p.timeout_ms
              THEN [p |-> [p EXCEPT !.first_press = NoTime], r |-> Complete(p.action)]
              ELSE [p |-> [p EXCEPT !.first_press = now], r |-> Partial]

Double_process_key_release(p, key, now) == [p |-> p, r |-> NoMatch]

Double_is_expired(p, now) ==
    /\ p.first_press # NoTime
    /\ duration_since(now, p.first_press) > p.timeout_ms

Combo_reset(p) == [p EXCEPT !.current_index = 0, !.held_keys = {}]

\* a combo that a repeated press of a held key resets
Combo_process_key_press_repeat_resets(p, key, now) ==
    IF p.current_index < Len(p.sequence) /\ key = p.sequence[p.current_index + 1]
    THEN [p |-> [p EXCEPT !.held_keys = @ \cup {key}, !.current_index = @ + 1],
          r |-> IF p.current_index + 1 = Len(p.sequence)
                THEN Complete(p.action) ELSE Partial]
    ELSE [p |-> Combo_reset(p), r |-> NoMatch]

Combo_process_key_press(p, key, now) ==
    IF p.current_index < Len(p.sequence) /\ key = p.sequence[p.current_index + 1]
    THEN [p |-> [p EXCEPT !.held_keys = @ \cup {key}, !.current_index = @ + 1],
          r |-> IF p.current_index + 1 = Len(p.sequence)
                THEN Complete(p.action) ELSE Partial]
    ELSE IF key \in p.held_keys
         THEN [p |-> p,
               r |-> IF p.current_index < Len(p.sequence) THEN Partial ELSE NoMatch]
         ELSE [p |-> Combo_reset(p), r |-> NoMatch]

\* position of the first occurrence of key in the sequence (0 when absent)
FirstPosition(seq, key) ==
    IF \E i \in 1..Len(seq) : seq[i] = key
    THEN CHOOSE i \in 1..Len(seq) : seq[i] = key /\ \A j \in 1..(i-1) : seq[j] # key
    ELSE 0

Combo_process_key_release(p, key, now) ==
    IF key \in p.held_keys
    THEN LET q == [p EXCEPT !.held_keys = @ \ {key}]
             pos == FirstPosition(p.sequence, key)
         IN [p |-> IF pos # 0 /\ pos - 1 < p.current_index THEN Combo_reset(q) ELSE q,
             r |-> NoMatch]
    ELSE [p |-> p, r |-> NoMatch]

\* dynamic dispatch over the Pattern trait
process_key_press(p, key, now) ==
    CASE p.type = "Single" -> Single_process_key_press(p, key, now)
      [] p.type = "DoubleTap" -> Double_process_key_press(p, key, now)
      [] OTHER -> Combo_process_key_press(p, key, now)

process_key_release(p, key, now) ==
    CASE p.type = "Single" -> Single_process_key_release(p, key, now)
      [] p.type = "DoubleTap" -> Double_process_key_release(p, key, now)
      [] OTHER -> Combo_process_key_release(p, key, now)

pattern_reset(p) ==
    CASE p.type = "Single" -> [p EXCEPT !.press_time = NoTime]
      [] p.type = "DoubleTap" -> [p EXCEPT !.first_press = NoTime]
      [] OTHER -> Combo_reset(p)

is_expired(p, now) == IF p.type = "DoubleTap" THEN Double_is_expired(p, now) ELSE FALSE

(***************************************************************************)
(* parser.rs: a textual pattern is modelled after tokenisation, as         *)
(* [kind, names, timeout_ms]; "A+B" is kind "combo", "double(K, T)" is     *)
(* kind "double" (T = DefaultDoubleTimeout when omitted), else "single".   *)
(***************************************************************************)
DefaultDoubleTimeout == 300

SingleCfg(name) == [kind |-> "single", names |-> <<name>>, timeout_ms |-> NoTime]
ComboCfg(names) == [kind |-> "combo", names |-> names, timeout_ms |-> NoTime]
DoubleCfg(name, t) == [kind |-> "double", names |-> <<name>>, timeout_ms |-> t]

parse_ambiguous_modifier_key(name) ==
    CASE name \in {"Control", "Ctrl"} -> <<"ControlLeft", "ControlRight">>
      [] name = "Shift" -> <<"ShiftLeft", "ShiftRight">>
      [] name \in {"Alt", "Option"} -> <<"Alt", "AltGr">>
      [] OTHER -> <<>>

KnownKeyNames ==
    {"ControlLeft", "ControlRight", "ShiftLeft", "ShiftRight", "AltLeft", "AltRight",
     "Escape", "Esc", "F1", "F2", "F3", "F4"}

\* Err(UnknownKey) is "Unknown"
parse_key_name(name) ==
    CASE name = "AltLeft" -> "Alt"
      [] name = "AltRight" -> "AltGr"
      [] name = "Esc" -> "Escape"
      [] name \in KnownKeyNames -> name
      [] OTHER -> "Unknown"

RECURSIVE AppendAll(_, _)
\* push key on every sequence
AppendAll(sequences, key) ==
    IF sequences = <<>> THEN <<>>
    ELSE <<Append(Head(sequences), key)>> \o AppendAll(Tail(sequences), key)

\* for every sequence: the left variant only
ExpandBoth_left_only(sequences, left, right) == AppendAll(sequences, left)

RECURSIVE ExpandBoth(_, _, _)
\* for every sequence: the left variant, then the right variant
ExpandBoth(sequences, left, right) ==
    IF sequences = <<>> THEN <<>>
    ELSE <<Append(Head(sequences), left), Append(Head(sequences), right)>>
         \o ExpandBoth(Tail(sequences), left, right)

RECURSIVE combo_sequences(_, _)
\* the loop of parse_combo over the key names
combo_sequences(names, sequences) ==
    IF names = <<>> THEN sequences
    ELSE LET amb == parse_ambiguous_modifier_key(Head(names))
         IN IF amb # <<>>
            THEN combo_sequences(Tail(names), ExpandBoth(sequences, amb[1], amb[2]))
            ELSE combo_sequences(Tail(names), AppendAll(sequences, parse_key_name(Head(names))))

\* parse_key_name(key_name)? returns the error of the first unknown name
combo_has_unknown_key(names) ==
    \E i \in 1..Len(names) :
        /\ parse_ambiguous_modifier_key(names[i]) = <<>>
        /\ parse_key_name(names[i]) = "Unknown"

RECURSIVE MapCombo(_, _)
MapCombo(sequences, action) ==
    IF sequences = <<>> THEN <<>>
    ELSE <<ComboPattern_new(Head(sequences), action)>> \o MapCombo(Tail(sequences), action)

parse_single_key(cfg, action) ==
    LET amb == parse_ambiguous_modifier_key(cfg.names[1])
    IN IF amb # <<>>
       THEN <<SingleKeyPattern_new(amb[1], action), SingleKeyPattern_new(amb[2], action)>>
       ELSE IF parse_key_name(cfg.names[1]) = "Unknown" THEN <<>>
            ELSE <<SingleKeyPattern_new(parse_key_name(cfg.names[1]), action)>>

parse_combo(cfg, action) ==
    IF combo_has_unknown_key(cfg.names) THEN <<>>
    ELSE MapCombo(combo_sequences(cfg.names, << <<>> >>), action)

parse_double_tap(cfg, action) ==
    LET amb == parse_ambiguous_modifier_key(cfg.names[1])
    IN IF amb # <<>>
       THEN <<DoubleTapPattern_new(amb[1], cfg.timeout_ms, action),
              DoubleTapPattern_new(amb[2], cfg.timeout_ms, action)>>
       ELSE IF parse_key_name(cfg.names[1]) = "Unknown" THEN <<>>
            ELSE <<DoubleTapPattern_new(parse_key_name(cfg.names[1]), cfg.timeout_ms, action)>>

\* a pattern that fails to parse contributes no pattern (the engine logs and drops it)
parse_pattern(cfg, action) ==
    CASE cfg.kind = "double" -> parse_double_tap(cfg, action)
      [] cfg.kind = "combo" -> parse_combo(cfg, action)
      [] OTHER -> parse_single_key(cfg, action)

(***************************************************************************)
(* conflict_resolver.rs                                                    *)
(***************************************************************************)
\* the shortest timeout instead of the longest
SeqMin(S) == IF S = {} THEN 0 ELSE CHOOSE x \in S : \A y \in S : x <= y
\* Iterator::max over the double-tap timeouts of a group
SeqMax(S) == IF S = {} THEN 0 ELSE CHOOSE x \in S : \A y \in S : y <= x

\* indices of the patterns that share the trigger key of patterns[idx]
group_patterns_by_trigger_key(patterns, idx) ==
    {j \in 1..Len(patterns) : get_trigger_key(patterns[j]) = get_trigger_key(patterns[idx])}

\* the strategies tried with the double-taps before the combos
apply_type_based_strategies_double_first(patterns, idx, buffer_ms) ==
    LET group == group_patterns_by_trigger_key(patterns, idx)
        has_combo == \E j \in group : patterns[j].type = "Combo"
        has_double == \E j \in group : patterns[j].type = "DoubleTap"
        max_double_timeout ==
            SeqMax({patterns[j].timeout_ms : j \in {k \in group : patterns[k].type = "DoubleTap"}})
    IN IF has_double THEN DelayedFire(max_double_timeout + buffer_ms)
       ELSE IF has_combo THEN FireOnRelease
       ELSE Immediate

apply_type_based_strategies(patterns, idx, buffer_ms) ==
    LET group == group_patterns_by_trigger_key(patterns, idx)
        has_combo == \E j \in group : patterns[j].type = "Combo"
        has_double == \E j \in group : patterns[j].type = "DoubleTap"
        max_double_timeout ==
            SeqMax({patterns[j].timeout_ms : j \in {k \in group : patterns[k].type = "DoubleTap"}})
    IN IF has_combo THEN FireOnRelease
       ELSE IF has_double THEN DelayedFire(max_double_timeout + buffer_ms)
       ELSE Immediate

analyze_and_mark_conflicts(patterns, buffer_ms) ==
    [idx \in 1..Len(patterns) |->
        IF patterns[idx].type = "Single"
           /\ Cardinality(group_patterns_by_trigger_key(patterns, idx)) > 1
        THEN [patterns[idx] EXCEPT
                 !.conflict_strategy = apply_type_based_strategies(patterns, idx, buffer_ms)]
        ELSE patterns[idx]]

(***************************************************************************)
(* matcher.rs: ShortcutMatcher                                             *)
(* A matcher is [patterns, active_patterns, pending_delayed_ids];          *)
(* patterns_by_key is recomputed from patterns (build_index).              *)
(***************************************************************************)
ShortcutMatcher_new(patterns) ==
    [patterns |-> patterns, active_patterns |-> {}, pending_delayed_ids |-> <<>>]

\* the comparison of both sort_by closures: Some(a) < Some(b) iff a < b, Some(_) < None
timeout_less(p, q) ==
    \/ get_timeout(p) # NoTime /\ get_timeout(q) # NoTime /\ get_timeout(p) < get_timeout(q)
    \/ get_timeout(p) # NoTime /\ get_timeout(q) = NoTime

Perms(S) ==
    {f \in [1..Cardinality(S) -> S] : \A i, j \in 1..Cardinality(S) : i # j => f[i] # f[j]}

\* build_index: the indices with trigger key `key`, stable-sorted by timeout
patterns_by_key(patterns, key) ==
    LET S == {i \in 1..Len(patterns) : get_trigger_key(patterns[i]) = key}
    IN IF S = {} THEN <<>>
       ELSE CHOOSE f \in Perms(S) :
              \A i, j \in 1..Cardinality(S) :
                 i < j => /\ ~timeout_less(patterns[f[j]], patterns[f[i]])
                          /\ (~timeout_less(patterns[f[i]], patterns[f[j]]) => f[i] < f[j])

\* process_press collects the HashSet active_patterns into a Vec (in the set's
\* unspecified iteration order) and stable-sorts it by timeout: every order
\* that is sorted by timeout can result
ActivePressOrders(m) ==
    {f \in Perms(m.active_patterns) :
        \A i, j \in 1..Cardinality(m.active_patterns) :
            i < j => ~timeout_less(m.patterns[f[j]], m.patterns[f[i]])}

\* process_release iterates the HashSet in its unspecified order
ActiveReleaseOrders(m) == Perms(m.active_patterns)

reset_all_patterns(m) ==
    [m EXCEPT !.patterns = [i \in 1..Len(m.patterns) |->
                               IF i \in m.active_patterns
                               THEN pattern_reset(m.patterns[i]) ELSE m.patterns[i]],
              !.active_patterns = {}]

cleanup_expired_patterns(m, now) ==
    LET expired == {i \in m.active_patterns : is_expired(m.patterns[i], now)}
    IN [m EXCEPT !.patterns = [i \in 1..Len(m.patterns) |->
                                  IF i \in expired
                                  THEN pattern_reset(m.patterns[i]) ELSE m.patterns[i]],
                 !.active_patterns = @ \ expired]

\* the result of process_event together with the matcher and the id counter it leaves
MatcherResult(m, immediate, delayed, cancelled, counter) ==
    [matcher |-> m, immediate |-> immediate, delayed |-> delayed,
     cancelled |-> cancelled, counter |-> counter]

\* a Complete arm that forgets to cancel the pending delayed actions
on_complete_keep_pending(m, action, counter) ==
    MatcherResult(reset_all_patterns(m), action, <<>>, <<>>, counter)
\* a Complete arm that hands back the completed action as a delayed one as well
on_complete_and_delayed(m, action, counter) ==
    MatcherResult(reset_all_patterns([m EXCEPT !.pending_delayed_ids = <<>>]), action,
                  <<[id |-> counter, action |-> action, trigger_at |-> 0]>>,
                  m.pending_delayed_ids, counter)
\* the Complete arm, shared by the three loops
on_complete(m, action, counter) ==
    MatcherResult(reset_all_patterns([m EXCEPT !.pending_delayed_ids = <<>>]),
                  action, <<>>, m.pending_delayed_ids, counter)

on_delayed(m, counter) == [m EXCEPT !.pending_delayed_ids = Append(@, counter)]

new_delayed_action(counter, r, now) ==
    [id |-> counter, action |-> r.action, trigger_at |-> now + r.wait_ms]

RECURSIVE press_new_patterns(_, _, _, _, _, _)
\* second loop of process_press: the patterns indexed under the key
press_new_patterns(m, indices, key, now, counter, delayed) ==
    IF indices = <<>> THEN MatcherResult(m, None, delayed, <<>>, counter)
    ELSE LET idx == Head(indices) IN
         IF idx \in m.active_patterns
         THEN press_new_patterns(m, Tail(indices), key, now, counter, delayed)
         ELSE LET res == process_key_press(m.patterns[idx], key, now)
                  m1 == [m EXCEPT !.patterns[idx] = res.p]
              IN CASE res.r.kind = "Partial" ->
                        press_new_patterns([m1 EXCEPT !.active_patterns = @ \cup {idx}],
                                           Tail(indices), key, now, counter, delayed)
                   [] res.r.kind = "Complete" -> on_complete(m1, res.r.action, counter)
                   [] res.r.kind = "Delayed" ->
                        press_new_patterns(on_delayed(m1, counter), Tail(indices), key, now,
                                           counter + 1,
                                           Append(delayed, new_delayed_action(counter, res.r, now)))
                   [] OTHER -> press_new_patterns(m1, Tail(indices), key, now, counter, delayed)

RECURSIVE press_active_patterns(_, _, _, _, _, _)
\* first loop of process_press: the snapshot `order` of the active patterns
press_active_patterns(m, order, key, now, counter, delayed) ==
    IF order = <<>>
    THEN press_new_patterns(m, patterns_by_key(m.patterns, key), key, now, counter, delayed)
    ELSE LET idx == Head(order)
             res == process_key_press(m.patterns[idx], key, now)
             m1 == [m EXCEPT !.patterns[idx] = res.p]
         IN CASE res.r.kind = "Complete" -> on_complete(m1, res.r.action, counter)
              [] res.r.kind = "Delayed" ->
                   press_active_patterns(on_delayed(m1, counter), Tail(order), key, now,
                                         counter + 1,
                                         Append(delayed, new_delayed_action(counter, res.r, now)))
              [] res.r.kind = "Partial" ->
                   press_active_patterns(m1, Tail(order), key, now, counter, delayed)
              [] OTHER ->
                   press_active_patterns([m1 EXCEPT !.active_patterns = @ \ {idx}],
                                         Tail(order), key, now, counter, delayed)

process_press(m, order, key, now, counter) ==
    press_active_patterns(m, order, key, now, counter, <<>>)

RECURSIVE process_release(_, _, _, _, _)
process_release(m, order, key, now, counter) ==
    IF order = <<>> THEN MatcherResult(m, None, <<>>, <<>>, counter)
    ELSE LET idx == Head(order)
             res == process_key_release(m.patterns[idx], key, now)
             m1 == [m EXCEPT !.patterns[idx] = res.p]
         IN IF res.r.kind = "Complete"
            THEN on_complete(m1, res.r.action, counter)
            ELSE process_release(m1, Tail(order), key, now, counter)

\* event is [type |-> "Press" | "Release", key |-> k]; `order` is the iteration
\* order of the active patterns after the expiry cleanup
Matcher_process_event(m, order, event, now, counter) ==
    IF event.type = "Press"
    THEN process_press(cleanup_expired_patterns(m, now), order, event.key, now, counter)
    ELSE process_release(cleanup_expired_patterns(m, now), order, event.key, now, counter)

EventOrders(m, event, now) ==
    IF event.type = "Press"
    THEN ActivePressOrders(cleanup_expired_patterns(m, now))
    ELSE ActiveReleaseOrders(cleanup_expired_patterns(m, now))

(***************************************************************************)
(* engine.rs: MatcherEngine                                                *)
(***************************************************************************)
VARIABLES
    matcher,            \* MatcherEngine.matcher
    current_state,      \* MatcherEngine.current_state
    pending_delayed,    \* MatcherEngine.pending_delayed
    pattern_configs,    \* the (pattern, action) pairs the engine was configured with
    stored_configs,     \* MatcherEngine.pattern_configs is Some(..) (new_with_patterns) or None (default)
    delayed_counter,    \* static DELAYED_ACTION_COUNTER of matcher.rs
    now,                \* the monotonic clock read by the last call
    last,               \* what the last call on the engine was given and returned
    prev,               \* the last key event the engine processed
    combo_seq,          \* progress of Press(K1), Press(K2), Release(K1), Release(K2)
    walk,               \* progress of the returned actions along Start, Pause, Cancel, Start, Stop
    fr_press,           \* per key: its latest press seen by a FireOnRelease single of the matcher in use
    \* audio_recorder.rs
    rec_state,          \* InternalState of the worker thread
    shared_state,       \* SharedState: the two AtomicBool flags
    command_ch,         \* bounded(10) channel of Command
    response_ch,        \* bounded(10) channel of Response
    worker_alive,       \* run_audio_thread is in its loop
    caller,             \* the public call that waits in recv_timeout (None when none)
    dropped,            \* the handle was dropped
    captured,           \* number of samples the input callback has produced
    calls,              \* number of public calls made on the handle
    reply,              \* what the last public call returned
    handled,            \* the last command the worker handled, and its response
    session,            \* the Paused runs and the samples captured since the last Resume
    timed_out,          \* some public call has timed out
    recording_no,       \* number of recordings the worker has started
    cancelled_recs,     \* the recordings stopped by a Stop command that handle_cancel sent
    \* registry.rs: one broadcast_lifecycle call
    notify_pc,          \* position of the notify_* call
    notify_event,       \* the hook the call broadcasts
    handles,            \* the scoped join handles, in the order they were spawned
    spawn_order,        \* the iteration order of the DashMap for this call
    task,               \* per component: state of its hook task
    hook_calls,         \* per component: times its hook ran during this call
    joined,             \* number of handles joined
    errors,             \* components whose hook returned Err
    notify_result,      \* what the notify_* call returned
    \* controllers.rs
    ctl,                \* the action handler that waits for the recorder (None when none)
    audio_locked,       \* the Mutex around the AudioRecorder is held
    tasks,              \* the spawned transcription threads
    notified,           \* per lifecycle event: number of broadcasts
    processed,          \* recordings whose samples reached processing or transcription
    cancels,            \* number of handle_cancel calls that have returned
    ok_calls,           \* per handler: recorder calls of it that returned Ok
    transcribe_on_pause, \* Config::transcribe_on_pause
    \* dynamic_buffer.rs, ring_buffer.rs
    dyn_buf,            \* a DynamicBuffer
    dyn_written,        \* the slices written since the last read_all or reset, concatenated
    dyn_out,            \* the last call on the DynamicBuffer and what it returned
    ring,               \* a RingBuffer: the storage of the HeapRb and its two indices
    ring_expected,      \* the bytes accepted by write and not yet taken out
    ring_out,           \* the last call on the RingBuffer and what it returned
    \* audio_recorder.rs: create_stream_with_retry, and the input callback against the worker
    retry_in,           \* per attempt: what the host and the device answer
    retry_out,          \* what create_stream_with_retry did and returned
    buffer_lock,        \* holder of the Mutex around the DynamicBuffer (None when free)
    worker_op,          \* what the worker does with the buffer under the lock
    cb_pc,              \* position of the input callback
    cb_chunk,           \* convert_audio_data(data, channels) of the running callback
    cb_contended,       \* the worker held the lock when the callback asked for it
    \* parser.rs, conflict_resolver.rs: one call of parse_pattern, one of analyze_and_mark_conflicts
    parse_in,           \* the textual pattern given to parse_pattern
    parse_out,          \* what parse_pattern returned
    res_in,             \* the patterns given to analyze_and_mark_conflicts
    res_out,            \* the patterns after analyze_and_mark_conflicts
    \* registry.rs: register, get_by_name, initialize_all, RegistryBuilder::build
    components,         \* ComponentRegistry.components: identity tag -> component
    components_by_name, \* ComponentRegistry.components_by_name: name -> component
    register_out,       \* the last register call: its component and what it returned
    first_by_tag,       \* per identity tag: the first component that register was given
    registers,          \* number of register calls
    init_pc,            \* position of the initialize_all call
    init_status,        \* per identity tag: what preload and initialize of its component did
    sequential_left,    \* the sequential components initialize_all has still to run
    failed_components,  \* initialize_all: the identity tags of the failures it collected
    build_result,       \* what initialize_all, and with it build, returned
    \* audio_recorder.rs: AudioRecorder::shutdown
    shutdown_pc,        \* position of the shutdown() call on the handle
    \* smart_collector.rs
    collector,          \* a SmartCollector
    collector_out,      \* the last process_chunk call: its chunk and what it returned
    chunks_fed,         \* number of process_chunk calls
    \* transcription_observer.rs
    obs_running,        \* the AtomicBool running
    thread_handle,      \* Option<JoinHandle>: the worker whose handle is stored, or NoWorker
    handle_lock,        \* owner of the thread_handle Mutex
    collector_lock,     \* owner of the collector Mutex
    workers,            \* per spawned worker thread: its position and locals
    spawned,            \* number of worker threads spawned
    ring_bytes,         \* bytes held by the real-time ring buffer
    writes,             \* number of writes of the audio callback
    hooks,              \* per calling thread: the observer hook it is in and its position
    hook_calls_made,    \* per calling thread: number of hook calls
    hook_out,           \* the hook call that returned last
    transcribed,        \* the last segment handed to handle_transcription, and by whom
    \* spotify.rs
    volume_state,       \* the AtomicU8 volume_state
    original_volume,    \* Option<u8> under its Mutex
    spotify_volume,     \* the player's sound volume
    duck_config,        \* spotify_recording_volume / spotify_reduce_by
    requests,           \* per thread: the handle_volume_change call it is in
    duck_calls,         \* number of handle_volume_change calls
    duck_out,           \* the call that returned last
    \* shortcut_listener.rs, controllers.rs, app.rs: the threads of the pipeline
    engine_lock,        \* owner of the RwLock<MatcherEngine>
    audio_lock,         \* owner of the Mutex<AudioRecorder>
    asr_lock,           \* owner of the Mutex<MLEngine> of the TranscriptionService
    should_stop,        \* the AtomicBool should_stop
    handler_call,       \* the handler call of the thread that holds the engine lock
    rec,                \* the recorder as its worker leaves it after a command
    asr_task,           \* the transcription task handle_stop spawns
    shut_pc,            \* position of the thread that runs Controllers::shutdown
    actions_made        \* number of actions handed to the handler

engineVars == <<matcher, current_state, pending_delayed, pattern_configs,
                stored_configs, delayed_counter, now, last, prev, combo_seq, walk, fr_press>>

recorderVars == <<rec_state, shared_state, command_ch, response_ch, worker_alive, caller,
                  dropped, captured, calls, reply, handled, session, timed_out, recording_no,
                  cancelled_recs>>

registryVars == <<notify_pc, notify_event, handles, spawn_order, task, hook_calls, joined,
                  errors, notify_result>>

controllerVars == <<ctl, audio_locked, tasks, notified, processed, cancels, ok_calls,
                    transcribe_on_pause>>

bufferVars == <<dyn_buf, dyn_written, dyn_out, ring, ring_expected, ring_out>>

\* the parts that the listener, the recorder and the controllers do not touch
setupVars == <<parse_in, parse_out, res_in, res_out>>

tableVars == <<components, components_by_name, register_out, first_by_tag, registers,
               init_pc, init_status, sequential_left, failed_components, build_result>>

streamVars == <<retry_in, retry_out, buffer_lock, worker_op, cb_pc, cb_chunk, cb_contended>>

shutdownVars == <<shutdown_pc>>

\* the parts added for the teardown, the collector, the observer and the ducking
collectorVars == <<collector, collector_out, chunks_fed>>

observerVars == <<obs_running, thread_handle, handle_lock, collector_lock, workers, spawned,
                  ring_bytes, writes, hooks, hook_calls_made, hook_out, transcribed>>

duckVars == <<volume_state, original_volume, spotify_volume, duck_config, requests,
              duck_calls, duck_out>>

pipelineVars == <<engine_lock, audio_lock, asr_lock, should_stop, handler_call, rec, asr_task, shut_pc,
                  actions_made>>

extraVars == <<shutdownVars, collectorVars, observerVars, duckVars, pipelineVars>>
nonShutdownExtraVars == <<collectorVars, observerVars, duckVars, pipelineVars>>

otherVars == <<bufferVars, streamVars, setupVars, tableVars, extraVars>>
nonBufferVars == <<engineVars, recorderVars, registryVars, controllerVars, streamVars, setupVars, tableVars, extraVars>>
nonSetupVars == <<engineVars, recorderVars, registryVars, controllerVars, streamVars, bufferVars, tableVars, extraVars>>
nonTableVars == <<engineVars, recorderVars, registryVars, controllerVars, streamVars, bufferVars, setupVars, extraVars>>

\* everything but the buffers, the lock on them and the callback
nonStreamVars == <<engineVars, recorderVars, registryVars, controllerVars, setupVars, tableVars, extraVars>>

\* the engine, the registry, the controllers and the parts set up before them
baseVars == <<engineVars, registryVars, controllerVars, bufferVars, streamVars, setupVars, tableVars>>

nonCollectorVars == <<baseVars, recorderVars, shutdownVars, observerVars, duckVars, pipelineVars>>
nonObserverVars == <<baseVars, recorderVars, shutdownVars, duckVars, pipelineVars>>
nonDuckVars == <<baseVars, recorderVars, shutdownVars, collectorVars, observerVars, pipelineVars>>
nonPipelineVars == <<baseVars, recorderVars, shutdownVars, collectorVars, observerVars, duckVars>>

nonEngineVars == <<recorderVars, registryVars, controllerVars, otherVars>>
nonRecorderVars == <<engineVars, registryVars, controllerVars, otherVars>>

\* shortcut_resolution_delay_ms.unwrap_or(50)
buffer_ms == 50

\* the slices of get_available_actions, in their order
get_available_actions(state) ==
    CASE state = "Idle" -> <<"Start">>
      [] state = "Active" -> <<"Stop", "Cancel", "Pause">>
      [] OTHER -> <<"Pause", "Cancel", "Stop">>

Range(f) == {f[i] : i \in DOMAIN f}

\* Pause that never resumes
determine_next_state_no_toggle(action, state) ==
    CASE action = "Start" -> "Active"
      [] action \in {"Stop", "Cancel"} -> "Idle"
      [] OTHER -> "Paused"
determine_next_state(action, state) ==
    CASE action = "Start" -> "Active"
      [] action \in {"Stop", "Cancel"} -> "Idle"
      [] OTHER -> IF state = "Paused" THEN "Active" ELSE "Paused"

RECURSIVE parse_all(_)
\* the loop of parse_patterns_internal
parse_all(configs) ==
    IF configs = <<>> THEN <<>>
    ELSE parse_pattern(Head(configs).pattern, Head(configs).action) \o parse_all(Tail(configs))

parse_patterns_internal(configs) ==
    analyze_and_mark_conflicts(parse_all(configs), buffer_ms)

SelectAction(configs, action) == SelectSeq(configs, LAMBDA c : c.action = action)

RECURSIVE configs_for_actions(_, _)
\* build_patterns_for_state: the keys of every available action, action by action
\* (Config::global() holds one key list per action)
configs_for_actions(configs, actions) ==
    IF actions = <<>> THEN <<>>
    ELSE SelectAction(configs, Head(actions)) \o configs_for_actions(configs, Tail(actions))

build_patterns_for_state(configs, state) ==
    parse_patterns_internal(configs_for_actions(configs, get_available_actions(state)))

\* the patterns set_state installs for `state`
patterns_for_state(configs, stored, state) ==
    IF stored
    THEN parse_patterns_internal(
             SelectSeq(configs, LAMBDA c : c.action \in Range(get_available_actions(state))))
    ELSE build_patterns_for_state(configs, state)

\* the matcher after set_state(state)
set_state_matcher(m, configs, stored, cur, state) ==
    IF cur # state
    THEN ShortcutMatcher_new(patterns_for_state(configs, stored, state))
    ELSE m

\* index of the first pending entry with trigger_at <= now (0 when none)
trigger_index(pending, t) ==
    IF \E i \in 1..Len(pending) : pending[i].trigger_at <= t
    THEN CHOOSE i \in 1..Len(pending) :
            /\ pending[i].trigger_at <= t
            /\ \A j \in 1..(i-1) : ~(pending[j].trigger_at <= t)
    ELSE 0

RemoveAt(seq, i) == SubSeq(seq, 1, i - 1) \o SubSeq(seq, i + 1, Len(seq))

\* [action, id, pending]: the triggered action (None when none) and the list left
check_and_trigger_delayed(pending, t) ==
    LET index == trigger_index(pending, t)
    IN IF index # 0
       THEN [action |-> pending[index].action, id |-> pending[index].id,
             pending |-> RemoveAt(pending, index)]
       ELSE [action |-> None, id |-> -1, pending |-> pending]

\* new_with_patterns parses every configured pattern, whatever its action
new_with_patterns_matcher(configs) == ShortcutMatcher_new(parse_patterns_internal(configs))
\* Default builds the patterns of the Idle state
default_matcher(configs) == ShortcutMatcher_new(build_patterns_for_state(configs, "Idle"))

(***************************************************************************)
(* Pattern sets the engine is configured with                              *)
(***************************************************************************)
PatternConfig(pattern, action) == [pattern |-> pattern, action |-> action]

\* tests/conflict_tests.rs, test_comprehensive_state_transitions
CfgComprehensive ==
    <<PatternConfig(SingleCfg("ControlLeft"), "Stop"),
      PatternConfig(DoubleCfg("ControlLeft", 150), "Start"),
      PatternConfig(SingleCfg("ShiftLeft"), "Pause"),
      PatternConfig(DoubleCfg("ShiftLeft", 150), "Cancel")>>

\* tests/conflict_tests.rs, test_combo_wins_over_single_on_release
CfgCombo ==
    <<PatternConfig(SingleCfg("ControlLeft"), "Stop"),
      PatternConfig(ComboCfg(<<"ControlLeft", "ShiftLeft">>), "Start")>>

\* tests/conflict_tests.rs, test_single_delayed_by_longest_double_timeout
CfgTwoDoubles ==
    <<PatternConfig(SingleCfg("ControlLeft"), "Stop"),
      PatternConfig(DoubleCfg("ControlLeft", 100), "Start"),
      PatternConfig(DoubleCfg("ControlLeft", 200), "Pause")>>

\* cli/tests/integration_test.rs, test_shortcut_triggers_controller
CfgFKeys ==
    <<PatternConfig(SingleCfg("F1"), "Start"),
      PatternConfig(SingleCfg("F2"), "Stop"),
      PatternConfig(SingleCfg("F3"), "Pause"),
      PatternConfig(SingleCfg("F4"), "Cancel")>>

\* start_keys = "ControlLeft", stop_keys = "ControlLeft",
\* cancel_keys = "ControlLeft+ShiftLeft; double(ShiftLeft, 150)", pause_keys = "ShiftLeft"
CfgComboAndDelayed ==
    <<PatternConfig(SingleCfg("ControlLeft"), "Start"),
      PatternConfig(SingleCfg("ControlLeft"), "Stop"),
      PatternConfig(ComboCfg(<<"ControlLeft", "ShiftLeft">>), "Cancel"),
      PatternConfig(DoubleCfg("ShiftLeft", 150), "Cancel"),
      PatternConfig(SingleCfg("ShiftLeft"), "Pause")>>

\* start_keys = "ControlLeft", stop_keys = "ControlLeft", pause_keys = "ShiftLeft",
\* cancel_keys = "double(ControlLeft, 300); double(ShiftLeft, 100)": while recording
\* the two singles are delayed by 350 and by 150
CfgMixedDelays ==
    <<PatternConfig(SingleCfg("ControlLeft"), "Start"),
      PatternConfig(SingleCfg("ControlLeft"), "Stop"),
      PatternConfig(SingleCfg("ShiftLeft"), "Pause"),
      PatternConfig(DoubleCfg("ControlLeft", 300), "Cancel"),
      PatternConfig(DoubleCfg("ShiftLeft", 100), "Cancel")>>

\* start_keys = stop_keys = "ControlLeft+ShiftLeft+F1", cancel_keys = "ControlLeft+F1",
\* pause_keys = "F2": a three-key combo as in tests/basic_tests.rs
\* (test_combo_cmd_shift_y_incomplete), a combo that shares its first key, and a
\* key outside both sequences
CfgCombo3 ==
    <<PatternConfig(ComboCfg(<<"ControlLeft", "ShiftLeft", "F1">>), "Start"),
      PatternConfig(ComboCfg(<<"ControlLeft", "ShiftLeft", "F1">>), "Stop"),
      PatternConfig(ComboCfg(<<"ControlLeft", "F1">>), "Cancel"),
      PatternConfig(SingleCfg("F2"), "Pause")>>

\* the pattern sets of the crate's tests, and the one of a user configuration
EngineConfigs == {CfgComprehensive, CfgCombo, CfgTwoDoubles, CfgFKeys}
UserConfigs == {CfgComboAndDelayed}

\* the clock advances by one of these amounts between two calls
TimeSteps == {0, 50, 200}

\* The engine holds no Instant: no delayed action is pending and no pattern
\* remembers a press.  The time that passes before the next call then cannot
\* influence any comparison the code makes, so the clock is only advanced
\* while some Instant is held.
holds_no_instant ==
    /\ pending_delayed = <<>>
    /\ \A i \in 1..Len(matcher.patterns) :
           matcher.patterns[i].press_time = NoTime /\ matcher.patterns[i].first_press = NoTime

Elapsed == IF holds_no_instant THEN {0} ELSE TimeSteps

\* the keys the keyboard hook delivers: those of the configured patterns
EventKeys(configs) ==
    UNION {Range(p.sequence) : p \in Range(parse_all(configs))}

(***************************************************************************)
(* Observation of the calls (not program state)                            *)
(***************************************************************************)
Scenario == <<"Start", "Pause", "Cancel", "Start", "Stop">>

walk_next(w, action, state_before) ==
    IF action = None THEN w
    ELSE IF w >= 1 /\ w < Len(Scenario) /\ action = Scenario[w + 1] THEN w + 1
    ELSE IF action = "Start" /\ state_before = "Idle" THEN 1
    ELSE 0

NoPrev == [type |-> None, key |-> None, time |-> 0, minted |-> {}, same_matcher |-> FALSE,
           lone |-> FALSE, completed |-> FALSE]

\* no pattern of the matcher is part-way through a match
matcher_idle(m) ==
    /\ m.active_patterns = {}
    /\ \A i \in 1..Len(m.patterns) :
           /\ m.patterns[i].press_time = NoTime
           /\ m.patterns[i].first_press = NoTime
           /\ m.patterns[i].current_index = 0

\* the matcher has a FireOnRelease single-key pattern on key k
HasFireOnRelease(m, k) == \E i \in 1..Len(m.patterns) :
    /\ m.patterns[i].type = "Single" /\ m.patterns[i].sequence = <<k>>
    /\ m.patterns[i].conflict_strategy = FireOnRelease

NoPress == [k \in {"ControlLeft", "ControlRight", "ShiftLeft", "ShiftRight", "Alt", "AltGr",
                   "Escape", "F1", "F2", "F3", "F4"} |-> NoTime]

\* m is the matcher before the event; a completion resets every pattern and a
\* state change installs new patterns
fr_press_next(fp, m, event, t, completed, rebuilt) ==
    IF completed \/ rebuilt THEN NoPress
    ELSE IF event.type = "Press"
         THEN IF HasFireOnRelease(m, event.key) THEN [fp EXCEPT ![event.key] = t] ELSE fp
         ELSE [fp EXCEPT ![event.key] = NoTime]

NoComboSeq == [stage |-> 0, k1 |-> None, k2 |-> None, a1 |-> None, a2 |-> None]

HasSingle(m, k) == \E i \in 1..Len(m.patterns) :
    m.patterns[i].type = "Single" /\ m.patterns[i].sequence = <<k>>
HasCombo2(m, k1, k2) == \E i \in 1..Len(m.patterns) :
    m.patterns[i].type = "Combo" /\ m.patterns[i].sequence = <<k1, k2>>
SingleAction(m, k) ==
    LET i == CHOOSE i \in 1..Len(m.patterns) :
                 m.patterns[i].type = "Single" /\ m.patterns[i].sequence = <<k>>
    IN m.patterns[i].action
Combo2Action(m, k1, k2) ==
    LET i == CHOOSE i \in 1..Len(m.patterns) :
                 m.patterns[i].type = "Combo" /\ m.patterns[i].sequence = <<k1, k2>>
    IN m.patterns[i].action

\* m is the matcher before the event, rebuilt whether the event replaced it
combo_seq_next(cs, m, event, rebuilt_before_stage2) ==
    CASE cs.stage = 1 /\ event.type = "Press" /\ event.key # cs.k1
             /\ HasCombo2(m, cs.k1, event.key) ->
             [cs EXCEPT !.stage = 2, !.k2 = event.key,
                        !.a2 = Combo2Action(m, cs.k1, event.key)]
      [] cs.stage = 2 /\ event = [type |-> "Release", key |-> cs.k1] ->
             [cs EXCEPT !.stage = 3]
      [] cs.stage = 3 /\ event = [type |-> "Release", key |-> cs.k2] ->
             [cs EXCEPT !.stage = 4]
      [] event.type = "Press" /\ HasSingle(m, event.key) /\ ~rebuilt_before_stage2
             /\ (\E k \in EventKeys(pattern_configs) : k # event.key /\ HasCombo2(m, event.key, k)) ->
             [stage |-> 1, k1 |-> event.key, k2 |-> None,
              a1 |-> SingleAction(m, event.key), a2 |-> None]
      [] OTHER -> NoComboSeq

(***************************************************************************)
(* MatcherEngine::process_event_with_time and ::poll_delayed_action        *)
(***************************************************************************)
CallRecord(op, key, state_before, action, immediate, fired_id, cancelled, rebuilt, second_tap) ==
    [op |-> op, key |-> key, state_before |-> state_before, action |-> action,
     immediate |-> immediate, fired_id |-> fired_id, cancelled |-> cancelled,
     rebuilt |-> rebuilt, second_tap |-> second_tap]

process_event_with_time(event, t) ==
    \E order \in EventOrders(matcher, event, t) :
      LET r == Matcher_process_event(matcher, order, event, t, delayed_counter)
          lone == pending_delayed = <<>> /\ matcher_idle(matcher)
      IN
      /\ r.counter <= MaxDelayedIds
      /\ now' = t
      /\ delayed_counter' = r.counter
      /\ UNCHANGED <<pattern_configs, stored_configs>>
      /\ IF r.immediate # None /\ r.delayed # <<>>
         THEN \* MatcherError::ConflictingActions: the event is dropped
              /\ matcher' = r.matcher
              /\ UNCHANGED <<current_state, pending_delayed, walk>>
              /\ fr_press' = fr_press_next(fr_press, matcher, event, t, FALSE, FALSE)
              /\ last' = CallRecord(event.type, event.key, current_state, None, None, -1, {}, FALSE, FALSE)
              /\ prev' = [type |-> event.type, key |-> event.key, time |-> t, minted |-> {},
                          same_matcher |-> TRUE, lone |-> lone, completed |-> FALSE]
              /\ combo_seq' = NoComboSeq
         ELSE LET retained == SelectSeq(pending_delayed, LAMBDA d : d.id \notin Range(r.cancelled))
                  trig == check_and_trigger_delayed(retained \o r.delayed, t)
                  action == IF r.immediate # None THEN r.immediate ELSE trig.action
                  new_state == IF action # None
                               THEN determine_next_state(action, current_state)
                               ELSE current_state
                  rebuilt == new_state # current_state
              IN /\ pending_delayed' = trig.pending
                 /\ current_state' = new_state
                 /\ matcher' = set_state_matcher(r.matcher, pattern_configs, stored_configs,
                                                 current_state, new_state)
                 /\ last' = CallRecord(event.type, event.key, current_state, action,
                                       r.immediate, trig.id,
                                       {d.id : d \in Range(pending_delayed)} \cap Range(r.cancelled),
                                       rebuilt,
                                       /\ event.type = "Press" /\ prev.type = "Press"
                                       /\ prev.key = event.key /\ prev.same_matcher)
                 /\ prev' = [type |-> event.type, key |-> event.key, time |-> t,
                             minted |-> {d.id : d \in Range(r.delayed)},
                             same_matcher |-> ~rebuilt, lone |-> lone,
                             completed |-> r.immediate # None]
                 /\ combo_seq' = combo_seq_next(combo_seq, matcher, event,
                                                rebuilt /\ r.immediate = None)
                 /\ walk' = walk_next(walk, action, current_state)
                 /\ fr_press' = fr_press_next(fr_press, matcher, event, t,
                                              r.immediate # None, rebuilt)

poll_delayed_action(t) ==
    LET trig == check_and_trigger_delayed(pending_delayed, t)
        new_state == IF trig.action # None
                     THEN determine_next_state(trig.action, current_state)
                     ELSE current_state
        rebuilt == new_state # current_state
    IN /\ now' = t
       /\ pending_delayed' = trig.pending
       /\ current_state' = new_state
       /\ matcher' = set_state_matcher(matcher, pattern_configs, stored_configs,
                                       current_state, new_state)
       /\ last' = CallRecord("Poll", None, current_state, trig.action, None, trig.id, {}, rebuilt, FALSE)
       /\ prev' = [prev EXCEPT !.same_matcher = @ /\ ~rebuilt]
       /\ combo_seq' = IF rebuilt /\ combo_seq.stage = 1 THEN NoComboSeq ELSE combo_seq
       /\ walk' = walk_next(walk, trig.action, current_state)
       /\ fr_press' = IF rebuilt THEN NoPress ELSE fr_press
       /\ UNCHANGED <<pattern_configs, stored_configs, delayed_counter>>

KeyPress ==
    \E key \in EventKeys(pattern_configs), dt \in Elapsed :
        /\ now + dt <= MaxTime
        /\ process_event_with_time([type |-> "Press", key |-> key], now + dt)
        /\ UNCHANGED nonEngineVars

KeyRelease ==
    \E key \in EventKeys(pattern_configs), dt \in Elapsed :
        /\ now + dt <= MaxTime
        /\ process_event_with_time([type |-> "Release", key |-> key], now + dt)
        /\ UNCHANGED nonEngineVars

PollDelayed ==
    \E dt \in Elapsed :
        /\ now + dt <= MaxTime
        /\ poll_delayed_action(now + dt)
        /\ UNCHANGED nonEngineVars

(***************************************************************************)
(* audio_recorder.rs: the worker thread                                    *)
(* Samples are numbered in the order the input callback produces them.     *)
(***************************************************************************)
\* samples the input callback may produce
MaxSamples == 2
\* public calls made on one AudioRecorder handle
MaxCalls == 4

Response(kind, samples, error) == [kind |-> kind, samples |-> samples, error |-> error]
Started == Response("Started", <<>>, None)
Stopped(samples) == Response("Stopped", samples, None)
Paused(samples) == Response("Paused", samples, None)
Resumed == Response("Resumed", <<>>, None)
BufferSnapshot(samples) == Response("BufferSnapshot", samples, None)
ErrorResponse(e) == Response("Error", <<>>, e)
\* Ok(None): the worker sends nothing
NoResponse == Response(None, <<>>, None)

InternalState_new == [stream |-> FALSE, buffer |-> <<>>, segments |-> <<>>, is_paused |-> FALSE]
SharedState(is_recording, is_paused) == [is_recording |-> is_recording, is_paused |-> is_paused]

\* what handle_command leaves behind
Handled(state, shared, response) == [state |-> state, shared |-> shared, response |-> response]

RECURSIVE Flatten(_)
\* all_samples.extend_from_slice(segment) for every segment
Flatten(segments) ==
    IF segments = <<>> THEN <<>> ELSE Head(segments) \o Flatten(Tail(segments))

\* a Start that clears the buffer and the segments before it looks at the stream
handle_StartRecording_reset_first(state, shared, stream_ok) ==
    LET cleared == [state EXCEPT !.buffer = <<>>, !.segments = <<>>]
    IN IF state.stream THEN Handled(cleared, shared, ErrorResponse("AlreadyRecording"))
       ELSE IF ~stream_ok THEN Handled(cleared, shared, ErrorResponse("NoInputDevice"))
       ELSE Handled([cleared EXCEPT !.stream = TRUE, !.is_paused = FALSE],
                    SharedState(TRUE, FALSE), Started)
\* stream_ok: create_stream_with_retry and play() succeed
handle_StartRecording(state, shared, stream_ok) ==
    IF state.stream THEN Handled(state, shared, ErrorResponse("AlreadyRecording"))
    ELSE LET cleared == [state EXCEPT !.buffer = <<>>, !.segments = <<>>]
         IN IF ~stream_ok THEN Handled(cleared, shared, ErrorResponse("NoInputDevice"))
            ELSE Handled([cleared EXCEPT !.stream = TRUE, !.is_paused = FALSE],
                         SharedState(TRUE, FALSE), Started)

\* what the callback writes between read_all and the drop of the stream is
\* cleared by the reset that follows
handle_StopRecording(state, shared) ==
    IF ~state.stream /\ ~state.is_paused
    THEN Handled(state, shared, ErrorResponse("NotRecording"))
    ELSE LET current_data == IF state.stream THEN state.buffer ELSE <<>>
         IN Handled(InternalState_new, SharedState(FALSE, FALSE),
                    Stopped(Flatten(state.segments) \o current_data))

\* a Pause that leaves the is_recording flag set
handle_PauseRecording_flag_kept(state, shared, late) ==
    IF ~state.stream THEN Handled(state, shared, ErrorResponse("NotRecording"))
    ELSE IF state.is_paused THEN Handled(state, shared, ErrorResponse("AlreadyPaused"))
    ELSE Handled([state EXCEPT !.segments = Append(@, state.buffer), !.buffer = late,
                               !.stream = FALSE, !.is_paused = TRUE],
                 SharedState(shared.is_recording, TRUE), Paused(state.buffer))
\* late: what the input callback writes after read_all and before the stream is dropped
handle_PauseRecording(state, shared, late) ==
    IF ~state.stream THEN Handled(state, shared, ErrorResponse("NotRecording"))
    ELSE IF state.is_paused THEN Handled(state, shared, ErrorResponse("AlreadyPaused"))
    ELSE Handled([state EXCEPT !.segments = Append(@, state.buffer), !.buffer = late,
                               !.stream = FALSE, !.is_paused = TRUE],
                 SharedState(FALSE, TRUE), Paused(state.buffer))

handle_ResumeRecording(state, shared, stream_ok) ==
    IF ~state.is_paused THEN Handled(state, shared, ErrorResponse("NotPaused"))
    ELSE IF ~stream_ok THEN Handled(state, shared, ErrorResponse("NoInputDevice"))
    ELSE Handled([state EXCEPT !.stream = TRUE, !.is_paused = FALSE],
                 SharedState(TRUE, FALSE), Resumed)

handle_GetBufferSnapshot(state, shared) ==
    Handled(state, shared, BufferSnapshot(IF state.stream THEN state.buffer ELSE <<>>))

\* a Shutdown that is answered like any other command, so that the loop goes on
handle_Shutdown_answered(state, shared) ==
    Handled(state, SharedState(FALSE, FALSE), ErrorResponse("Shutdown"))

handle_Shutdown(state, shared) == Handled(state, SharedState(FALSE, FALSE), NoResponse)

handle_command(cmd, state, shared, stream_ok, late) ==
    CASE cmd = "StartRecording" -> handle_StartRecording(state, shared, stream_ok)
      [] cmd = "StopRecording" -> handle_StopRecording(state, shared)
      [] cmd = "PauseRecording" -> handle_PauseRecording(state, shared, late)
      [] cmd = "ResumeRecording" -> handle_ResumeRecording(state, shared, stream_ok)
      [] cmd = "GetBufferSnapshot" -> handle_GetBufferSnapshot(state, shared)
      [] OTHER -> handle_Shutdown(state, shared)

\* the Paused runs of the recording in progress and the samples captured since
\* its last Resume; ok while every command of the recording has succeeded
NoSession == [ok |-> FALSE, runs |-> <<>>, after_resume |-> <<>>]

session_next(s, cmd, response) ==
    CASE response.kind = "Error" -> [s EXCEPT !.ok = FALSE]
      [] cmd = "StartRecording" -> [ok |-> TRUE, runs |-> <<>>, after_resume |-> <<>>]
      [] cmd = "PauseRecording" -> [s EXCEPT !.runs = Append(@, response.samples)]
      [] cmd = "ResumeRecording" -> [s EXCEPT !.after_resume = <<>>]
      [] cmd = "StopRecording" -> [s EXCEPT !.ok = FALSE]
      [] OTHER -> s

(***************************************************************************)
(* audio_recorder.rs: the AudioRecorder handle                             *)
(***************************************************************************)
PublicCommands ==
    {"StartRecording", "StopRecording", "PauseRecording", "ResumeRecording", "GetBufferSnapshot"}

\* the response variant each public method accepts
ExpectedKind(cmd) ==
    CASE cmd = "StartRecording" -> "Started"
      [] cmd = "StopRecording" -> "Stopped"
      [] cmd = "PauseRecording" -> "Paused"
      [] cmd = "ResumeRecording" -> "Resumed"
      [] OTHER -> "BufferSnapshot"

\* the match on the received response in the public methods
call_result(cmd, response) ==
    IF response.kind = ExpectedKind(cmd) THEN "Ok"
    ELSE IF response.kind = "Error" THEN response.error
    ELSE "Unexpected response"

\* answers: the number of the call whose command the response answers;
\* rec_no: the recording the samples belong to
Reply(seq, cmd, origin, result, answers, samples, rec_no) ==
    [seq |-> seq, cmd |-> cmd, origin |-> origin, result |-> result, answers |-> answers,
     samples |-> samples, rec_no |-> rec_no]

NoReply == Reply(0, None, None, None, 0, <<>>, 0)
NoHandled == [seq |-> 0, cmd |-> None, origin |-> None, response |-> NoResponse]
\* no call is waiting in recv_timeout
NoCaller == [cmd |-> None, seq |-> 0, origin |-> None]

InitRecorderVars ==
    /\ rec_state = InternalState_new
    /\ shared_state = SharedState(FALSE, FALSE)
    /\ command_ch = <<>>
    /\ response_ch = <<>>
    /\ worker_alive = TRUE
    /\ caller = NoCaller
    /\ dropped = FALSE
    /\ captured = 0
    /\ calls = 0
    /\ reply = NoReply
    /\ handled = NoHandled
    /\ session = NoSession
    /\ timed_out = FALSE
    /\ recording_no = 0
    /\ cancelled_recs = {}

\* command_tx.send(cmd); the caller then waits in recv_timeout
send(cmd, origin) ==
    /\ caller = NoCaller /\ ~dropped
    /\ calls' = calls + 1
    /\ IF worker_alive
       THEN /\ command_ch' = Append(command_ch, [cmd |-> cmd, seq |-> calls + 1, origin |-> origin])
            /\ caller' = [cmd |-> cmd, seq |-> calls + 1, origin |-> origin]
            /\ UNCHANGED reply
       ELSE /\ reply' = Reply(calls + 1, cmd, origin, "ThreadCommunicationFailed", 0, <<>>, 0)
            /\ UNCHANGED <<command_ch, caller>>
    /\ UNCHANGED <<rec_state, shared_state, response_ch, worker_alive, dropped, captured,
                   handled, session, timed_out, recording_no, cancelled_recs>>

\* a public method is called on the handle; shutdown(&mut self) excludes any other
send_command(cmd, origin) ==
    /\ calls < MaxCalls
    /\ shutdown_pc \in {"none", "returned"}
    /\ send(cmd, origin)

\* recv_timeout returns the response at the head of the channel
receive_response ==
    /\ caller # NoCaller /\ response_ch # <<>>
    /\ LET m == Head(response_ch)
       IN reply' = Reply(caller.seq, caller.cmd, caller.origin, call_result(caller.cmd, m.response),
                         m.answers, m.response.samples, m.rec_no)
    /\ response_ch' = Tail(response_ch)
    /\ caller' = NoCaller
    /\ UNCHANGED <<rec_state, shared_state, command_ch, worker_alive, dropped, captured, calls,
                   handled, session, timed_out, recording_no, cancelled_recs>>

\* recv_timeout gives up: no response arrived within 5 s (1 s for the snapshot)
receive_timeout ==
    /\ caller # NoCaller /\ response_ch = <<>>
    /\ reply' = Reply(caller.seq, caller.cmd, caller.origin, "ThreadCommunicationFailed", 0, <<>>, 0)
    /\ caller' = NoCaller
    /\ timed_out' = TRUE
    /\ UNCHANGED <<rec_state, shared_state, command_ch, response_ch, worker_alive, dropped,
                   captured, calls, handled, session, recording_no, cancelled_recs>>

\* one iteration of the loop of run_audio_thread
WorkerHandle ==
    /\ worker_alive /\ command_ch # <<>>
    /\ LET c == Head(command_ch) IN
       \E stream_ok \in IF c.cmd \in {"StartRecording", "ResumeRecording"} THEN BOOLEAN ELSE {TRUE},
          late \in IF c.cmd = "PauseRecording" /\ rec_state.stream /\ captured < MaxSamples
                   THEN {<<>>, <<captured + 1>>} ELSE {<<>>} :
         LET h == handle_command(c.cmd, rec_state, shared_state, stream_ok, late)
             started == h.response.kind = "Started"
         IN \* on Shutdown run_audio_thread returns: its state is dropped, the stream with it
            /\ rec_state' = IF h.response = NoResponse THEN InternalState_new ELSE h.state
            /\ shared_state' = h.shared
            /\ command_ch' = Tail(command_ch)
            /\ captured' = captured + Len(late)
            /\ recording_no' = IF started THEN recording_no + 1 ELSE recording_no
            /\ cancelled_recs' = IF c.origin = "handle_cancel" /\ h.response.kind = "Stopped"
                            THEN cancelled_recs \cup {recording_no} ELSE cancelled_recs
            /\ IF h.response = NoResponse
               THEN /\ worker_alive' = FALSE
                    /\ UNCHANGED <<response_ch, handled, session>>
               ELSE /\ worker_alive' = TRUE
                    /\ response_ch' = Append(response_ch,
                           [response |-> h.response, answers |-> c.seq, origin |-> c.origin,
                            rec_no |-> IF h.response.kind \in {"Stopped", "Paused"}
                                       THEN recording_no ELSE 0])
                    /\ handled' = [seq |-> c.seq, cmd |-> c.cmd, origin |-> c.origin,
                                   response |-> h.response]
                    /\ session' = session_next(session, c.cmd, h.response)
    /\ UNCHANGED <<caller, dropped, calls, reply, timed_out>>
    /\ UNCHANGED nonRecorderVars

\* the data callback of create_stream: buffer.write(&mono_bytes)
AudioCallback ==
    /\ rec_state.stream /\ captured < MaxSamples
    /\ captured' = captured + 1
    /\ rec_state' = [rec_state EXCEPT !.buffer = Append(@, captured + 1)]
    /\ session' = [session EXCEPT !.after_resume = Append(@, captured + 1)]
    /\ UNCHANGED <<shared_state, command_ch, response_ch, worker_alive, caller, dropped, calls,
                   reply, handled, timed_out, recording_no, cancelled_recs>>
    /\ UNCHANGED nonRecorderVars

\* Drop for AudioRecorder: send Shutdown and join the worker
DropRecorder ==
    /\ caller = NoCaller /\ ~dropped
    /\ shutdown_pc \in {"none", "returned"}
    /\ dropped' = TRUE
    /\ command_ch' = IF worker_alive
                     THEN Append(command_ch, [cmd |-> "Shutdown", seq |-> 0, origin |-> "drop"])
                     ELSE command_ch
    /\ UNCHANGED <<rec_state, shared_state, response_ch, worker_alive, caller, captured, calls,
                   reply, handled, session, timed_out, recording_no, cancelled_recs>>
    /\ UNCHANGED nonRecorderVars

Call == (\E cmd \in PublicCommands : send_command(cmd, "api")) /\ UNCHANGED nonRecorderVars
Receive == receive_response /\ UNCHANGED nonRecorderVars
Timeout == receive_timeout /\ UNCHANGED nonRecorderVars

(***************************************************************************)
(* registry.rs: ComponentRegistry::broadcast_lifecycle                     *)
(***************************************************************************)
\* registered components
NumComponents == 3

Components == 1..NumComponents

\* the notify_* methods, named by the hook they broadcast
LifecycleEvents ==
    {"on_start", "on_stop", "on_pause", "on_resume", "on_cancel", "on_processing_start",
     "on_processing_complete", "on_error", "on_partial_processing_start",
     "on_partial_processing_complete"}

\* what a hook task can end with: f returned Ok, f returned Err, f panicked
HookOutcomes == {"ok", "err", "panic"}

InitRegistryVars ==
    /\ notify_pc = "idle"
    /\ notify_event = None
    /\ handles = <<>>
    /\ spawn_order = <<>>
    /\ task = [c \in Components |-> "unspawned"]
    /\ hook_calls = [c \in Components |-> 0]
    /\ joined = 0
    /\ errors = <<>>
    /\ notify_result = None

\* a join that gives up on the first panicked task
after_join_unwrap(outcome, is_last) ==
    IF outcome = "panic" \/ is_last THEN "scope_end" ELSE "joining"
\* the loop over the handles goes on to the next handle whatever join returned
after_join(outcome, is_last) ==
    IF is_last THEN "scope_end" ELSE "joining"

\* notify_*: broadcast_lifecycle is entered
NotifyBegin ==
    /\ notify_pc \in {"idle", "returned"}
    /\ \E event \in LifecycleEvents, order \in Perms(Components) :
         /\ notify_event' = event
         /\ spawn_order' = order
    /\ notify_pc' = "spawning"
    /\ handles' = <<>>
    /\ task' = [c \in Components |-> "unspawned"]
    /\ hook_calls' = [c \in Components |-> 0]
    /\ joined' = 0
    /\ errors' = <<>>
    /\ notify_result' = None
    /\ UNCHANGED <<engineVars, recorderVars, controllerVars, otherVars>>

\* s.spawn(..) for the next component of the iteration
SpawnTask ==
    /\ notify_pc = "spawning"
    /\ LET c == spawn_order[Len(handles) + 1]
       IN /\ handles' = Append(handles, c)
          /\ task' = [task EXCEPT ![c] = "running"]
          /\ notify_pc' = IF Len(handles) + 1 = NumComponents THEN "joining" ELSE "spawning"
    /\ UNCHANGED <<notify_event, spawn_order, hook_calls, joined, errors, notify_result>>
    /\ UNCHANGED <<engineVars, recorderVars, controllerVars, otherVars>>

\* the spawned closure: f(comp.clone())
HookRun ==
    /\ \E c \in Components, outcome \in HookOutcomes :
         /\ task[c] = "running"
         /\ task' = [task EXCEPT ![c] = outcome]
         /\ hook_calls' = [hook_calls EXCEPT ![c] = @ + 1]
    /\ UNCHANGED <<notify_pc, notify_event, handles, spawn_order, joined, errors, notify_result>>
    /\ UNCHANGED <<engineVars, recorderVars, controllerVars, otherVars>>

\* handle.join() on the next handle, which returns once its task has ended
JoinHandle ==
    /\ notify_pc = "joining"
    /\ LET c == handles[joined + 1]
       IN /\ task[c] \in HookOutcomes
          /\ joined' = joined + 1
          /\ errors' = IF task[c] = "err" THEN Append(errors, c) ELSE errors
          /\ notify_pc' = after_join(task[c], joined + 1 = Len(handles))
    /\ UNCHANGED <<notify_event, handles, spawn_order, task, hook_calls, notify_result>>
    /\ UNCHANGED <<engineVars, recorderVars, controllerVars, otherVars>>

\* the scope has ended; the collected errors are logged and Ok(()) is returned
NotifyReturn ==
    /\ notify_pc = "scope_end"
    /\ notify_pc' = "returned"
    /\ notify_result' = "Ok"
    /\ UNCHANGED <<notify_event, handles, spawn_order, task, hook_calls, joined, errors>>
    /\ UNCHANGED <<engineVars, recorderVars, controllerVars, otherVars>>

(***************************************************************************)
(* controllers.rs: Controllers, driven by the callbacks of the listener    *)
(* (shortcut_listener.rs).  A broadcast is counted where the notify_* call *)
(* is made.                                                                *)
(***************************************************************************)
Handlers == {"handle_start", "handle_stop", "handle_cancel", "handle_pause", "handle_resume"}

InitControllerVars(on_pause) ==
    /\ ctl = None
    /\ audio_locked = FALSE
    /\ tasks = {}
    /\ notified = [e \in LifecycleEvents |-> 0]
    /\ processed = {}
    /\ cancels = 0
    /\ ok_calls = [h \in Handlers |-> 0]
    /\ transcribe_on_pause = on_pause

\* registry.notify_*()
notify(counts, event) == [counts EXCEPT ![event] = @ + 1]

\* a transcription thread that makes no processing_start broadcast
Transcription_skip_start(kind, r) ==
    [id |-> r.seq, kind |-> kind, rec_no |-> r.rec_no, samples |-> r.samples, stage |-> "transcribe"]

\* thread::spawn of process_transcription (final) or of the closure of
\* process_partial_transcription (partial) with the samples of reply r
Transcription(kind, r) ==
    [id |-> r.seq, kind |-> kind, rec_no |-> r.rec_no, samples |-> r.samples, stage |-> "start"]

\* audio.lock() / audio.try_lock() and the recorder call made under the lock
locked_call(handler, cmd) ==
    /\ ~audio_locked
    /\ worker_alive
    /\ audio_locked' = TRUE
    /\ ctl' = handler
    /\ send_command(cmd, handler)
    /\ UNCHANGED <<tasks, notified, processed, cancels, ok_calls, transcribe_on_pause>>

\* ShortcutHandler::handle_action up to the recorder call of the handler it selects
handle_action(action) ==
    CASE action = "Start" -> locked_call("handle_start", "StartRecording")
      [] action = "Stop" -> locked_call("handle_stop", "StopRecording")
      [] action = "Cancel" ->
           IF ~audio_locked
           THEN locked_call("handle_cancel", "StopRecording")
           ELSE /\ notified' = notify(notified, "on_cancel")
                /\ cancels' = cancels + 1
                /\ UNCHANGED <<ctl, audio_locked, tasks, processed, ok_calls, transcribe_on_pause>>
                /\ UNCHANGED recorderVars
      [] OTHER ->
           IF ~audio_locked
           THEN IF shared_state.is_paused
                THEN locked_call("handle_resume", "ResumeRecording")
                ELSE locked_call("handle_pause", "PauseRecording")
           ELSE UNCHANGED <<recorderVars, controllerVars>>

\* what was returned to the listener is handed to the handler
dispatch(action) ==
    IF action = None THEN UNCHANGED <<recorderVars, controllerVars>> ELSE handle_action(action)

\* the rest of handle_start / handle_stop / handle_cancel / handle_pause /
\* handle_resume once the recorder call has returned r
after_call(handler, r) ==
    /\ ctl' = None
    /\ audio_locked' = FALSE
    /\ ok_calls' = IF r.result = "Ok" THEN [ok_calls EXCEPT ![handler] = @ + 1] ELSE ok_calls
    /\ UNCHANGED <<processed, transcribe_on_pause>>
    /\ CASE handler = "handle_cancel" ->
              /\ notified' = notify(notified, "on_cancel")
              /\ cancels' = cancels + 1
              /\ UNCHANGED tasks
         [] handler # "handle_cancel" /\ r.result # "Ok" ->
              UNCHANGED <<notified, tasks, cancels>>
         [] handler = "handle_start" /\ r.result = "Ok" ->
              /\ notified' = notify(notified, "on_start")
              /\ UNCHANGED <<tasks, cancels>>
         [] handler = "handle_stop" /\ r.result = "Ok" ->
              /\ notified' = notify(notified, "on_stop")
              /\ tasks' = tasks \cup {Transcription("final", r)}
              /\ UNCHANGED cancels
         [] handler = "handle_pause" /\ r.result = "Ok" ->
              /\ notified' = notify(notified, "on_pause")
              /\ tasks' = IF transcribe_on_pause
                          THEN tasks \cup {Transcription("partial", r)} ELSE tasks
              /\ UNCHANGED cancels
         [] OTHER ->
              /\ notified' = notify(notified, "on_resume")
              /\ UNCHANGED <<tasks, cancels>>

\* a listener whose threads take no lock on the engine
engine_write_unlocked == TRUE

\* engine.write() returns: no other thread holds the guard of the engine, which
\* the callback and the polling thread keep until handle_action has returned
engine_write == ctl = None

\* listen_callback: engine.write(), process_event, handle_action; the guard of the
\* engine is held until the handler returns, so no other callback runs meanwhile.
\* The patterns of the configuration are single keys without conflicts: they
\* complete on the press, compare no Instants, and a release changes nothing.
ListenCallback ==
    /\ engine_write
    /\ \E key \in EventKeys(pattern_configs) :
         process_event_with_time([type |-> "Press", key |-> key], now)
    /\ dispatch(last'.action)
    /\ UNCHANGED <<registryVars, otherVars>>

\* the polling thread: engine.write(), poll_delayed_action, handle_action
ListenPoll ==
    /\ engine_write
    /\ poll_delayed_action(now)
    /\ dispatch(last'.action)
    /\ UNCHANGED <<registryVars, otherVars>>

\* the recorder call of the handler returns a response
HandlerReceive ==
    /\ ctl # None
    /\ receive_response
    /\ after_call(ctl, reply')
    /\ UNCHANGED <<engineVars, registryVars, otherVars>>

\* the recorder call of the handler times out
HandlerTimeout ==
    /\ ctl # None
    /\ receive_timeout
    /\ after_call(ctl, reply')
    /\ UNCHANGED <<engineVars, registryVars, otherVars>>

\* a transcription thread: notify_processing_start / notify_partial_processing_start
ProcessingStart ==
    /\ \E t \in tasks :
         /\ t.stage = "start"
         /\ tasks' = (tasks \ {t}) \cup {[t EXCEPT !.stage = "transcribe"]}
         /\ notified' = notify(notified, IF t.kind = "final" THEN "on_processing_start"
                                         ELSE "on_partial_processing_start")
         /\ processed' = IF t.kind = "final" THEN processed \cup {t.rec_no} ELSE processed
    /\ UNCHANGED <<ctl, audio_locked, cancels, ok_calls, transcribe_on_pause>>
    /\ UNCHANGED <<engineVars, recorderVars, registryVars, otherVars>>

\* a transcription thread: transcribe(&audio_data) and the broadcast of its outcome
Transcribe ==
    /\ \E t \in tasks, ok \in BOOLEAN :
         /\ t.stage = "transcribe"
         /\ tasks' = tasks \ {t}
         /\ notified' = notify(notified,
                IF ~ok THEN "on_error"
                ELSE IF t.kind = "final" THEN "on_processing_complete"
                ELSE "on_partial_processing_complete")
    /\ UNCHANGED <<ctl, audio_locked, processed, cancels, ok_calls, transcribe_on_pause>>
    /\ UNCHANGED <<engineVars, recorderVars, registryVars, otherVars>>

(***************************************************************************)
(* dynamic_buffer.rs: DynamicBuffer.  Sizes are scaled down; capacity is   *)
(* the least one that Vec::reserve and Vec::extend_from_slice guarantee.   *)
(***************************************************************************)
Bytes == {0, 1}
MaxSliceLen == 2
MaxBufferLen == 4
Slices == UNION {[1..n -> Bytes] : n \in 0..MaxSliceLen}

Max(a, b) == IF a >= b THEN a ELSE b
Min(a, b) == IF a <= b THEN a ELSE b

initial_capacity == 2
growth_increment == 3

DynamicBuffer_with_capacity ==
    [buffer |-> <<>>, capacity |-> initial_capacity, last_logged_capacity |-> initial_capacity]

\* write that keeps only the slice it was given
DynamicBuffer_write_replace(b, data) ==
    [b EXCEPT !.buffer = data, !.capacity = Max(b.capacity, Len(data))]

DynamicBuffer_write(b, data) ==
    LET required_capacity == Len(b.buffer) + Len(data)
        new_capacity == ((required_capacity \div growth_increment) + 1) * growth_increment
        grows == required_capacity > b.capacity
        reserved == IF grows
                    THEN Max(b.capacity, Len(b.buffer) + (new_capacity - b.capacity))
                    ELSE b.capacity
    IN  [buffer |-> b.buffer \o data,
         capacity |-> Max(reserved, required_capacity),
         last_logged_capacity |->
             IF grows /\ new_capacity >= b.last_logged_capacity + growth_increment
             THEN new_capacity ELSE b.last_logged_capacity]

DynamicBuffer_read_all(b) ==
    [data |-> b.buffer,
     buf |-> [b EXCEPT !.buffer = <<>>, !.capacity = initial_capacity]]

DynamicBuffer_reset(b) ==
    [buffer |-> <<>>,
     capacity |-> Min(b.capacity, initial_capacity),
     last_logged_capacity |-> initial_capacity]

DynWrite ==
    /\ \E data \in Slices :
         /\ Len(dyn_buf.buffer) + Len(data) <= MaxBufferLen
         /\ dyn_buf' = DynamicBuffer_write(dyn_buf, data)
         /\ dyn_written' = dyn_written \o data
         /\ dyn_out' = [op |-> "write", data |-> data]
    /\ UNCHANGED <<ring, ring_expected, ring_out>>
    /\ UNCHANGED nonBufferVars

DynReadAll ==
    /\ dyn_buf' = DynamicBuffer_read_all(dyn_buf).buf
    /\ dyn_written' = <<>>
    /\ dyn_out' = [op |-> "read_all", data |-> DynamicBuffer_read_all(dyn_buf).data]
    /\ UNCHANGED <<ring, ring_expected, ring_out>>
    /\ UNCHANGED nonBufferVars

DynReset ==
    /\ dyn_buf' = DynamicBuffer_reset(dyn_buf)
    /\ dyn_written' = <<>>
    /\ dyn_out' = [op |-> "reset", data |-> <<>>]
    /\ UNCHANGED <<ring, ring_expected, ring_out>>
    /\ UNCHANGED nonBufferVars

(***************************************************************************)
(* ring_buffer.rs: RingBuffer over ringbuf::HeapRb, whose read and write   *)
(* indices run modulo twice the capacity.                                  *)
(***************************************************************************)
ring_capacity == 3

RingBuffer_new ==
    [storage |-> [i \in 0..(ring_capacity - 1) |-> 0], read |-> 0, write |-> 0]

occupied_len(r) == (2 * ring_capacity + r.write - r.read) % (2 * ring_capacity)
vacant_len(r) == ring_capacity - occupied_len(r)

\* the n bytes of data stored from slot `from` on, wrapping around
copied(storage, from, data, n) ==
    [i \in 0..(ring_capacity - 1) |->
        IF \E k \in 1..n : (from + k - 1) % ring_capacity = i
        THEN data[CHOOSE k \in 1..n : (from + k - 1) % ring_capacity = i
                                      /\ \A j \in (k + 1)..n : (from + j - 1) % ring_capacity # i]
        ELSE storage[i]]

\* push_slice that stores the whole slice over what is there
push_slice_overwrite(r, data) ==
    [written |-> Len(data),
     ring |-> [storage |-> copied(r.storage, r.write, data, Len(data)),
               read |-> r.read,
               write |-> (r.write + Min(Len(data), vacant_len(r))) % (2 * ring_capacity)]]

push_slice(r, data) ==
    LET n == Min(Len(data), vacant_len(r))
    IN  [written |-> n,
         ring |-> [storage |-> copied(r.storage, r.write, data, n),
                   read |-> r.read,
                   write |-> (r.write + n) % (2 * ring_capacity)]]

pop_slice(r, count) ==
    LET n == Min(count, occupied_len(r))
    IN  [chunk |-> [k \in 1..n |-> r.storage[(r.read + k - 1) % ring_capacity]],
         ring |-> [r EXCEPT !.read = (r.read + n) % (2 * ring_capacity)]]

RingBuffer_write(r, data) == push_slice(r, data).ring

RingBuffer_read_chunk(r, min_size) ==
    LET available == occupied_len(r)
    IN  IF available < min_size
        THEN [some |-> FALSE, chunk |-> <<>>, ring |-> r]
        ELSE [some |-> TRUE, chunk |-> pop_slice(r, available).chunk,
              ring |-> pop_slice(r, available).ring]

RingBuffer_reset_reader(r) ==
    IF occupied_len(r) > 0 THEN pop_slice(r, occupied_len(r)).ring ELSE r

RingWrite ==
    /\ \E data \in Slices :
         /\ ring' = RingBuffer_write(ring, data)
         /\ ring_expected' = ring_expected
                \o SubSeq(data, 1, Min(Len(data), ring_capacity - Len(ring_expected)))
         /\ ring_out' = [op |-> "write", min_size |-> 0, some |-> FALSE, chunk |-> data]
    /\ UNCHANGED <<dyn_buf, dyn_written, dyn_out>>
    /\ UNCHANGED nonBufferVars

RingReadChunk ==
    /\ \E min_size \in 0..(ring_capacity + 1) :
         LET r == RingBuffer_read_chunk(ring, min_size)
         IN  /\ ring' = r.ring
             /\ ring_expected' = IF r.some THEN <<>> ELSE ring_expected
             /\ ring_out' = [op |-> "read_chunk", min_size |-> min_size,
                             some |-> r.some, chunk |-> r.chunk]
    /\ UNCHANGED <<dyn_buf, dyn_written, dyn_out>>
    /\ UNCHANGED nonBufferVars

RingResetReader ==
    /\ ring' = RingBuffer_reset_reader(ring)
    /\ ring_expected' = <<>>
    /\ ring_out' = [op |-> "reset_reader", min_size |-> 0, some |-> FALSE, chunk |-> <<>>]
    /\ UNCHANGED <<dyn_buf, dyn_written, dyn_out>>
    /\ UNCHANGED nonBufferVars

InitBufferVars ==
    /\ dyn_buf = DynamicBuffer_with_capacity
    /\ dyn_written = <<>>
    /\ dyn_out = [op |-> "new", data |-> <<>>]
    /\ ring = RingBuffer_new
    /\ ring_expected = <<>>
    /\ ring_out = [op |-> "new", min_size |-> 0, some |-> FALSE, chunk |-> <<>>]

(***************************************************************************)
(* audio_recorder.rs: create_stream_with_retry                             *)
(***************************************************************************)
MAX_RETRIES == 1
\* attempts the host and the device are asked about
MaxAttempts == 4

\* per attempt: default_input_device() is None, build_input_stream fails, or both succeed
AttemptOutcomes == {"no_device", "build_error", "ok"}
RetryInputs == [1..MaxAttempts -> AttemptOutcomes]
NoAttempts == <<>>

RetryResult(result, attempts, sleeps) ==
    [done |-> TRUE, result |-> result, attempts |-> attempts, sleeps |-> sleeps]
NotTried == [done |-> FALSE, result |-> None, attempts |-> 0, sleeps |-> 0]

RECURSIVE retry_loop(_, _, _)
\* for attempt in 1..=MAX_RETRIES; sleeps counts the waits of 100 ms
retry_loop(outcomes, attempt, sleeps) ==
    IF attempt > MAX_RETRIES
    THEN RetryResult("StateError", attempt - 1, sleeps)
    ELSE CASE outcomes[attempt] = "no_device" -> RetryResult("NoInputDevice", attempt, sleeps)
           [] outcomes[attempt] = "ok" -> RetryResult("Ok", attempt, sleeps)
           [] OTHER ->
                IF attempt < MAX_RETRIES
                THEN retry_loop(outcomes, attempt + 1, sleeps + 1)
                ELSE RetryResult("BuildStreamError", attempt, sleeps)

create_stream_with_retry(outcomes) == retry_loop(outcomes, 1, 0)

\* one call of create_stream_with_retry, by StartRecording or ResumeRecording
CreateStreamWithRetry ==
    /\ retry_in # NoAttempts
    /\ ~retry_out.done
    /\ retry_out' = create_stream_with_retry(retry_in)
    /\ UNCHANGED <<retry_in, buffer_lock, worker_op, cb_pc, cb_chunk, cb_contended>>
    /\ UNCHANGED <<bufferVars, nonStreamVars>>

(***************************************************************************)
(* audio_recorder.rs: the data callback of create_stream and the worker,   *)
(* which share the Mutex around the DynamicBuffer while the stream is open *)
(***************************************************************************)
\* what the worker does under the lock while a stream exists
LockedOps == {"read_all", "get_data"}

\* state.buffer.lock().unwrap() of handle_command: waits until the Mutex is free
WorkerLock ==
    /\ buffer_lock = None
    /\ \E op \in LockedOps : worker_op' = op
    /\ buffer_lock' = "worker"
    /\ UNCHANGED <<retry_in, retry_out, cb_pc, cb_chunk, cb_contended>>
    /\ UNCHANGED <<bufferVars, nonStreamVars>>

\* read_all() or get_data().to_vec(); the guard is dropped at the end of the statement
WorkerUnlock ==
    /\ buffer_lock = "worker"
    /\ dyn_buf' = IF worker_op = "read_all" THEN DynamicBuffer_read_all(dyn_buf).buf ELSE dyn_buf
    /\ buffer_lock' = None
    /\ worker_op' = None
    /\ UNCHANGED <<dyn_written, dyn_out, ring, ring_expected, ring_out>>
    /\ UNCHANGED <<retry_in, retry_out, cb_pc, cb_chunk, cb_contended>>
    /\ UNCHANGED nonStreamVars

\* the device calls the data callback: convert_audio_data, then buffer_clone.lock()
CallbackBegin ==
    /\ cb_pc = "idle"
    /\ \E chunk \in Slices \ {<<>>} :
         /\ Len(dyn_buf.buffer) + Len(chunk) <= MaxBufferLen
         /\ cb_chunk' = chunk
    /\ cb_pc' = "lock"
    /\ cb_contended' = (buffer_lock = "worker")
    /\ UNCHANGED <<retry_in, retry_out, buffer_lock, worker_op>>
    /\ UNCHANGED <<bufferVars, nonStreamVars>>

\* buffer_clone.lock() returns: Mutex::lock blocks the callback until the Mutex is free
CallbackLock ==
    /\ cb_pc = "lock"
    /\ buffer_lock = None
    /\ buffer_lock' = "callback"
    /\ cb_pc' = "write"
    /\ UNCHANGED <<retry_in, retry_out, worker_op, cb_chunk, cb_contended>>
    /\ UNCHANGED <<bufferVars, nonStreamVars>>

\* buffer.write(&mono_bytes); the guard is dropped at the end of the if let
CallbackWrite ==
    /\ cb_pc = "write"
    /\ dyn_buf' = DynamicBuffer_write(dyn_buf, cb_chunk)
    /\ buffer_lock' = None
    /\ cb_pc' = "ring"
    /\ UNCHANGED <<dyn_written, dyn_out, ring, ring_expected, ring_out>>
    /\ UNCHANGED <<retry_in, retry_out, worker_op, cb_chunk, cb_contended>>
    /\ UNCHANGED nonStreamVars

\* ring.write(&mono_bytes), and the callback returns
CallbackRing ==
    /\ cb_pc = "ring"
    /\ ring' = RingBuffer_write(ring, cb_chunk)
    /\ cb_pc' = "idle"
    /\ UNCHANGED <<dyn_buf, dyn_written, dyn_out, ring_expected, ring_out>>
    /\ UNCHANGED <<retry_in, retry_out, buffer_lock, worker_op, cb_chunk, cb_contended>>
    /\ UNCHANGED nonStreamVars

InitStreamVars(inputs) ==
    /\ retry_in \in inputs
    /\ retry_out = NotTried
    /\ buffer_lock = None
    /\ worker_op = None
    /\ cb_pc = "idle"
    /\ cb_chunk = <<>>
    /\ cb_contended = FALSE


(***************************************************************************)
(* audio_recorder.rs: AudioRecorder::shutdown                              *)
(***************************************************************************)
\* shutdown(): if self.is_recording() { let _ = self.stop_recording(); }
ShutdownBegin ==
    /\ shutdown_pc = "none"
    /\ caller = NoCaller /\ ~dropped
    /\ IF shared_state.is_recording
       THEN /\ send("StopRecording", "shutdown")
            /\ shutdown_pc' = "stop"
       ELSE /\ shutdown_pc' = "send"
            /\ UNCHANGED recorderVars
    /\ UNCHANGED <<baseVars, nonShutdownExtraVars>>

\* shutdown(): command_tx.send(Command::Shutdown), once stop_recording has returned
ShutdownSend ==
    /\ shutdown_pc \in {"stop", "send"}
    /\ caller = NoCaller
    /\ worker_alive
    /\ command_ch' = Append(command_ch, [cmd |-> "Shutdown", seq |-> 0, origin |-> "shutdown"])
    /\ shutdown_pc' = "join"
    /\ UNCHANGED <<rec_state, shared_state, response_ch, worker_alive, caller, dropped, captured,
                   calls, reply, handled, session, timed_out, recording_no, cancelled_recs>>
    /\ UNCHANGED <<baseVars, nonShutdownExtraVars>>

\* shutdown(): self.worker_thread.take() and thread.join() return
ShutdownJoin ==
    /\ shutdown_pc = "join"
    /\ ~worker_alive
    /\ shutdown_pc' = "returned"
    /\ UNCHANGED <<recorderVars, baseVars, nonShutdownExtraVars>>

InitShutdownVars == shutdown_pc = "none"

(***************************************************************************)
(* smart_collector.rs: SmartCollector.  A chunk of audio bytes is          *)
(* [len, level]: its length in bytes and the RMS of its samples in         *)
(* hundredths of full scale; a Vec<u8> that was extended chunk by chunk is  *)
(* the sequence of those chunks.                                           *)
(***************************************************************************)
\* calls of process_chunk on one collector
MaxChunks == 4

\* 0.04 of full scale
SPEECH_THRESHOLD == 4
PRE_SPEECH_CONTEXT_SEC == 1
POST_SPEECH_CONTEXT_SEC == 2
sample_rate == 48000

Chunk(len, level) == [len |-> len, level |-> level]
\* the chunk lengths and sample levels the collector is given
ChunkLens == {1, 38400, 76800, 120000}
ChunkLevels == {3, 4}
Chunks == {Chunk(len, level) : len \in ChunkLens, level \in ChunkLevels}

RECURSIVE total_len(_)
\* .iter().map(|c| c.len()).sum()
total_len(buf) == IF buf = <<>> THEN 0 ELSE Head(buf).len + total_len(Tail(buf))

\* fewer than two bytes hold no sample
calculate_rms(chunk) == IF chunk.len < 2 THEN 0 ELSE chunk.level

bytes_per_second == sample_rate * 2
pre_speech_buffer_max_bytes == bytes_per_second * PRE_SPEECH_CONTEXT_SEC
post_speech_buffer_max_bytes == bytes_per_second * POST_SPEECH_CONTEXT_SEC

SmartCollector_new ==
    [pre_speech_buffer |-> <<>>, accumulated_speech |-> <<>>, post_speech_buffer |-> <<>>,
     speech_detected |-> FALSE, silence_start |-> FALSE]

\* Option<Vec<u8>>::None
NoSegment == <<[len |-> -1, level |-> -1]>>

SmartCollector_reset(c) == SmartCollector_new

\* [collector, segment]
extract_final_segment(c) ==
    IF total_len(c.accumulated_speech) = 0
    THEN [collector |-> c, segment |-> NoSegment]
    ELSE [collector |-> SmartCollector_new,
          segment |-> c.pre_speech_buffer \o c.accumulated_speech \o c.post_speech_buffer]

RECURSIVE evict_newest(_)
\* an eviction that removes the chunks pushed last
evict_newest(buf) ==
    IF buf = <<>> \/ total_len(buf) <= pre_speech_buffer_max_bytes THEN buf
    ELSE evict_newest(SubSeq(buf, 1, Len(buf) - 1))

RECURSIVE evict(_)
\* while !is_empty() { if current_size <= max { break } pop_front() }
evict(buf) ==
    IF buf = <<>> \/ total_len(buf) <= pre_speech_buffer_max_bytes THEN buf
    ELSE evict(Tail(buf))

\* a segment that is complete only when the post-speech buffer exceeds its limit
segment_complete_exceeds(post) == total_len(post) > post_speech_buffer_max_bytes

\* post_speech_bytes >= self.post_speech_buffer_max_bytes
segment_complete(post) == total_len(post) >= post_speech_buffer_max_bytes

\* [collector, segment]
process_chunk(c, audio_data) ==
    LET is_speech == calculate_rms(audio_data) >= SPEECH_THRESHOLD
        keep(d) == [collector |-> d, segment |-> NoSegment]
    IN IF ~c.speech_detected
       THEN IF is_speech
            THEN keep([c EXCEPT !.speech_detected = TRUE,
                                !.accumulated_speech = Append(@, audio_data)])
            ELSE keep([c EXCEPT !.pre_speech_buffer = evict(Append(@, audio_data))])
       ELSE IF is_speech
            THEN keep([c EXCEPT !.post_speech_buffer = IF c.silence_start THEN <<>> ELSE @,
                                !.silence_start = FALSE,
                                !.accumulated_speech = Append(@, audio_data)])
            ELSE LET d == [c EXCEPT !.silence_start = TRUE,
                                    !.post_speech_buffer = Append(@, audio_data)]
                 IN IF segment_complete(d.post_speech_buffer)
                    THEN extract_final_segment(d)
                    ELSE keep(d)

NoChunk == Chunk(0, 0)

InitCollectorVars ==
    /\ collector = SmartCollector_new
    /\ collector_out = [chunk |-> NoChunk, segment |-> NoSegment]
    /\ chunks_fed = 0

\* collector.process_chunk(&chunk)
ProcessChunk ==
    /\ chunks_fed < MaxChunks
    /\ \E chunk \in Chunks :
         LET r == process_chunk(collector, chunk)
         IN /\ collector' = r.collector
            /\ collector_out' = [chunk |-> chunk, segment |-> r.segment]
    /\ chunks_fed' = chunks_fed + 1
    /\ UNCHANGED nonCollectorVars

(***************************************************************************)
(* transcription_observer.rs: TranscriptionObserver.  Its hooks are called *)
(* by the thread of a handler (the broadcasts of one handler at a time)    *)
(* and by the thread that runs Controllers::shutdown (notify_cancel); the  *)
(* worker threads are the ones on_start spawns.  The ring buffer is the    *)
(* number of bytes it holds.                                               *)
(***************************************************************************)
\* worker threads spawned, hook calls of the handler thread, writes of the audio callback
MaxWorkers == 2
MaxHookCalls == 2
MaxWrites == 3

MIN_CHUNK_SIZE == 38400
MAX_CHUNK_SIZE == 76800
\* Controllers::new: RingBuffer::new(10, config.sample_rate)
realtime_ring_seconds == 10
realtime_ring_capacity == realtime_ring_seconds * sample_rate * 2

\* byte counts the audio callback writes at once
WriteLens == {19200, 192000}

HookThreads == {"handler", "shutdown"}
WorkerIds == 1..MaxWorkers
NoWorker == 0
Unlocked == "free"
\* a worker thread as the owner of a lock
WorkerNames == <<"worker1", "worker2", "worker3", "worker4">>
Owner(w) == WorkerNames[w]

\* RingBuffer::available_bytes
available_bytes(bytes) == bytes

\* RingBuffer::read_chunk on the byte count: [some, len, ring]
read_chunk(bytes, min_size) ==
    LET available == bytes
    IN  IF available < min_size
        THEN [some |-> FALSE, len |-> 0, ring |-> bytes]
        ELSE [some |-> TRUE, len |-> available, ring |-> bytes - available]

\* a read_chunk that pops min_size bytes only
read_chunk_exact(bytes, min_size) ==
    LET available == bytes
    IN  IF available < min_size
        THEN [some |-> FALSE, len |-> 0, ring |-> bytes]
        ELSE [some |-> TRUE, len |-> min_size, ring |-> bytes - min_size]

IdleHook ==
    [pc |-> "idle", op |-> "none", handle |-> NoWorker, had_speech |-> FALSE,
     segment |-> NoSegment]
NoWorkerThread == [pc |-> "unborn", chunk_size |-> 0, chunk |-> NoChunk, segment |-> NoSegment]

InitObserverVars ==
    /\ obs_running = FALSE
    /\ thread_handle = NoWorker
    /\ handle_lock = Unlocked
    /\ collector_lock = Unlocked
    /\ workers = [w \in WorkerIds |-> NoWorkerThread]
    /\ spawned = 0
    /\ ring_bytes = 0
    /\ writes = 0
    /\ hooks = [t \in HookThreads |-> IdleHook]
    /\ hook_calls_made = [t \in HookThreads |-> 0]
    /\ hook_out = [thread |-> "none", op |-> "none", segment |-> NoSegment, had_speech |-> FALSE]
    /\ transcribed = [by |-> "none", segment |-> NoSegment]

\* the audio callback: ring.write(&mono_bytes); push_slice stores what fits
AudioWrite ==
    /\ writes < MaxWrites
    /\ \E len \in WriteLens :
         ring_bytes' = Min(realtime_ring_capacity, ring_bytes + len)
    /\ writes' = writes + 1
    /\ UNCHANGED <<obs_running, thread_handle, handle_lock, collector_lock, workers, spawned,
                   hooks, hook_calls_made, hook_out, transcribed>>
    /\ UNCHANGED <<collectorVars, nonObserverVars>>

\* ---- the worker thread ----
\* while running.load(Ordering::SeqCst)
WorkerLoop(w) ==
    /\ workers[w].pc = "loop"
    /\ workers' = [workers EXCEPT ![w].pc = IF obs_running THEN "sleep" ELSE "exited"]
    /\ UNCHANGED <<obs_running, thread_handle, handle_lock, collector_lock, spawned, ring_bytes,
                   writes, hooks, hook_calls_made, hook_out, transcribed>>
    /\ UNCHANGED <<collectorVars, nonObserverVars>>

\* thread::sleep(POLL_INTERVAL_MS); if !running.load() { break } ; available_bytes()
WorkerPoll(w) ==
    /\ workers[w].pc = "sleep"
    /\ LET available == available_bytes(ring_bytes)
       IN  workers' = [workers EXCEPT
               ![w].pc = IF ~obs_running THEN "exited"
                         ELSE IF available >= MIN_CHUNK_SIZE THEN "read" ELSE "loop",
               ![w].chunk_size = IF obs_running /\ available >= MIN_CHUNK_SIZE
                                 THEN Min(available, MAX_CHUNK_SIZE) ELSE 0]
    /\ UNCHANGED <<obs_running, thread_handle, handle_lock, collector_lock, spawned, ring_bytes,
                   writes, hooks, hook_calls_made, hook_out, transcribed>>
    /\ UNCHANGED <<collectorVars, nonObserverVars>>

\* ring_buffer.read_chunk(chunk_size)
WorkerRead(w) ==
    /\ workers[w].pc = "read"
    /\ LET r == read_chunk(ring_bytes, workers[w].chunk_size)
       IN  /\ ring_bytes' = r.ring
           /\ \E level \in ChunkLevels :
                workers' = [workers EXCEPT
                    ![w].pc = IF r.some THEN "lock" ELSE "loop",
                    ![w].chunk = IF r.some THEN Chunk(r.len, level) ELSE NoChunk]
    /\ UNCHANGED <<obs_running, thread_handle, handle_lock, collector_lock, spawned,
                   writes, hooks, hook_calls_made, hook_out, transcribed>>
    /\ UNCHANGED <<collectorVars, nonObserverVars>>

\* collector.lock(); collector.process_chunk(&chunk); the guard lives until
\* handle_transcription has returned
WorkerProcess(w) ==
    /\ workers[w].pc = "lock"
    /\ collector_lock = Unlocked
    /\ LET r == process_chunk(collector, workers[w].chunk)
       IN  /\ collector' = r.collector
           /\ collector_out' = [chunk |-> workers[w].chunk, segment |-> r.segment]
           /\ chunks_fed' = chunks_fed + 1
           /\ collector_lock' = IF r.segment # NoSegment THEN Owner(w) ELSE Unlocked
           /\ workers' = [workers EXCEPT
                  ![w].pc = IF r.segment # NoSegment THEN "transcribe" ELSE "loop",
                  ![w].segment = r.segment]
    /\ UNCHANGED <<obs_running, thread_handle, handle_lock, spawned, ring_bytes,
                   writes, hooks, hook_calls_made, hook_out, transcribed>>
    /\ UNCHANGED nonObserverVars

\* Self::handle_transcription(accumulated_audio): TranscriptionService::transcribe
\* takes the engine Mutex; then the collector guard is dropped
WorkerTranscribe(w) ==
    /\ workers[w].pc = "transcribe"
    /\ asr_lock = Unlocked
    /\ transcribed' = [by |-> "worker", segment |-> workers[w].segment]
    /\ collector_lock' = Unlocked
    /\ workers' = [workers EXCEPT ![w].pc = "loop", ![w].segment = NoSegment]
    /\ UNCHANGED <<obs_running, thread_handle, handle_lock, spawned, ring_bytes,
                   writes, hooks, hook_calls_made, hook_out>>
    /\ UNCHANGED <<collectorVars, nonObserverVars>>

\* ---- the hooks ----
Returned(t, segment) ==
    /\ hooks' = [hooks EXCEPT ![t] = IdleHook]
    /\ hook_out' = [thread |-> t, op |-> hooks[t].op, segment |-> segment,
                    had_speech |-> hooks[t].had_speech]

\* a broadcast reaches the observer's hook
CallHook(t, op) ==
    /\ hooks[t].pc = "idle"
    /\ hook_calls_made[t] < (IF t = "shutdown" THEN 1 ELSE MaxHookCalls)
    /\ t = "shutdown" => op = "cancel"
    /\ op = "start" => spawned < MaxWorkers
    /\ hooks' = [hooks EXCEPT ![t] = [IdleHook EXCEPT !.op = op,
                                          !.pc = IF op = "start" THEN "swap" ELSE "store"]]
    /\ hook_calls_made' = [hook_calls_made EXCEPT ![t] = @ + 1]
    /\ UNCHANGED <<obs_running, thread_handle, handle_lock, collector_lock, workers, spawned,
                   ring_bytes, writes, hook_out, transcribed>>
    /\ UNCHANGED <<collectorVars, nonObserverVars>>

\* on_start: if self.running.swap(true) { return Ok(()) }
OnStartSwap(t) ==
    /\ hooks[t].pc = "swap"
    /\ obs_running' = TRUE
    /\ IF obs_running
       THEN Returned(t, NoSegment)
       ELSE /\ hooks' = [hooks EXCEPT ![t].pc = "reset_reader"]
            /\ UNCHANGED hook_out
    /\ UNCHANGED <<thread_handle, handle_lock, collector_lock, workers, spawned, ring_bytes,
                   writes, hook_calls_made, transcribed>>
    /\ UNCHANGED <<collectorVars, nonObserverVars>>

\* on_start: self.ring_buffer.reset_reader()
OnStartResetReader(t) ==
    /\ hooks[t].pc = "reset_reader"
    /\ ring_bytes' = 0
    /\ hooks' = [hooks EXCEPT ![t].pc = "spawn"]
    /\ UNCHANGED <<obs_running, thread_handle, handle_lock, collector_lock, workers, spawned,
                   writes, hook_calls_made, hook_out, transcribed>>
    /\ UNCHANGED <<collectorVars, nonObserverVars>>

\* on_start: thread::spawn(..)
OnStartSpawn(t) ==
    /\ hooks[t].pc = "spawn"
    /\ spawned' = spawned + 1
    /\ workers' = [workers EXCEPT ![spawned + 1].pc = "loop"]
    /\ hooks' = [hooks EXCEPT ![t].pc = "store_handle", ![t].handle = spawned + 1]
    /\ UNCHANGED <<obs_running, thread_handle, handle_lock, collector_lock, ring_bytes,
                   writes, hook_calls_made, hook_out, transcribed>>
    /\ UNCHANGED <<collectorVars, nonObserverVars>>

\* on_start: *thread_handle_lock = Some(handle)
OnStartStoreHandle(t) ==
    /\ hooks[t].pc = "store_handle"
    /\ handle_lock = Unlocked
    /\ thread_handle' = hooks[t].handle
    /\ Returned(t, NoSegment)
    /\ UNCHANGED <<obs_running, handle_lock, collector_lock, workers, spawned, ring_bytes,
                   writes, hook_calls_made, transcribed>>
    /\ UNCHANGED <<collectorVars, nonObserverVars>>

\* on_stop / on_cancel: self.running.store(false)
OnStopStore(t) ==
    /\ hooks[t].pc = "store"
    /\ obs_running' = FALSE
    /\ hooks' = [hooks EXCEPT ![t].pc = "take"]
    /\ UNCHANGED <<thread_handle, handle_lock, collector_lock, workers, spawned, ring_bytes,
                   writes, hook_calls_made, hook_out, transcribed>>
    /\ UNCHANGED <<collectorVars, nonObserverVars>>

\* on_stop / on_cancel: thread_handle.lock(), thread_handle_lock.take()
OnStopTake(t) ==
    /\ hooks[t].pc = "take"
    /\ handle_lock = Unlocked
    /\ thread_handle' = NoWorker
    /\ IF thread_handle # NoWorker
       THEN /\ handle_lock' = t
            /\ hooks' = [hooks EXCEPT ![t].pc = "join", ![t].handle = thread_handle]
       ELSE /\ handle_lock' = Unlocked
            /\ hooks' = [hooks EXCEPT ![t].pc = "collector"]
    /\ UNCHANGED <<obs_running, collector_lock, workers, spawned, ring_bytes,
                   writes, hook_calls_made, hook_out, transcribed>>
    /\ UNCHANGED <<collectorVars, nonObserverVars>>

\* on_stop / on_cancel: handle.join() under the thread_handle lock
OnStopJoin(t) ==
    /\ hooks[t].pc = "join"
    /\ workers[hooks[t].handle].pc = "exited"
    /\ handle_lock' = Unlocked
    /\ hooks' = [hooks EXCEPT ![t].pc = "collector"]
    /\ UNCHANGED <<obs_running, thread_handle, collector_lock, workers, spawned, ring_bytes,
                   writes, hook_calls_made, hook_out, transcribed>>
    /\ UNCHANGED <<collectorVars, nonObserverVars>>

\* on_stop: collector.lock(), extract_final_segment(); on_cancel: collector.lock(), reset()
OnStopCollector(t) ==
    /\ hooks[t].pc = "collector"
    /\ collector_lock = Unlocked
    /\ LET r == extract_final_segment(collector)
           speech == total_len(collector.accumulated_speech) > 0
       IN  IF hooks[t].op = "stop" /\ r.segment # NoSegment
           THEN /\ collector' = r.collector
                /\ collector_lock' = t
                /\ hooks' = [hooks EXCEPT ![t].pc = "transcribe", ![t].had_speech = speech,
                                          ![t].segment = r.segment]
                /\ UNCHANGED hook_out
           ELSE /\ collector' = SmartCollector_reset(collector)
                /\ collector_lock' = Unlocked
                /\ hooks' = [hooks EXCEPT ![t] = IdleHook]
                /\ hook_out' = [thread |-> t, op |-> hooks[t].op, segment |-> NoSegment,
                                had_speech |-> speech]
    /\ UNCHANGED <<obs_running, thread_handle, handle_lock, workers, spawned, ring_bytes,
                   writes, hook_calls_made, transcribed, collector_out, chunks_fed>>
    /\ UNCHANGED nonObserverVars

\* on_stop: Self::handle_transcription(final_audio); collector.reset()
OnStopTranscribe(t) ==
    /\ hooks[t].pc = "transcribe"
    /\ asr_lock = Unlocked
    /\ transcribed' = [by |-> t, segment |-> hooks[t].segment]
    /\ collector' = SmartCollector_reset(collector)
    /\ collector_lock' = Unlocked
    /\ Returned(t, hooks[t].segment)
    /\ UNCHANGED <<obs_running, thread_handle, handle_lock, workers, spawned, ring_bytes,
                   writes, hook_calls_made, collector_out, chunks_fed>>
    /\ UNCHANGED nonObserverVars

WorkerStep ==
    \E w \in WorkerIds :
        \/ WorkerLoop(w) \/ WorkerPoll(w) \/ WorkerRead(w)
        \/ WorkerProcess(w) \/ WorkerTranscribe(w)

\* the steps inside a hook
HookBody(t) ==
    \/ OnStartSwap(t) \/ OnStartResetReader(t) \/ OnStartSpawn(t) \/ OnStartStoreHandle(t)
    \/ OnStopStore(t) \/ OnStopTake(t) \/ OnStopJoin(t)
    \/ OnStopCollector(t) \/ OnStopTranscribe(t)

HookStep(t) ==
    \/ \E op \in {"start", "stop", "cancel"} : CallHook(t, op)
    \/ HookBody(t)

(***************************************************************************)
(* spotify.rs: SpotifyComponent.  Reduce requests come from on_start and   *)
(* on_resume, restore requests from on_pause, on_cancel and                *)
(* on_processing_complete, each on the thread that runs the hook.          *)
(***************************************************************************)
\* threads that run hooks of the component, and the requests they make in all
MaxDuckThreads == 3
MaxDuckCalls == 4

DuckThreads == 1..MaxDuckThreads
\* the player's volume before the first request
PlayerVolumes == {15, 50}
\* Config: exactly one of spotify_recording_volume and spotify_reduce_by is set
NoVolume == -1
DuckExact == [recording_volume |-> 10, reduce_by |-> NoVolume]
DuckBy == [recording_volume |-> NoVolume, reduce_by |-> 20]
\* a volume of the configuration that does not fit a u8
DuckWide == [recording_volume |-> 266, reduce_by |-> NoVolume]
DuckConfigs == {DuckExact, DuckBy, DuckWide}

\* v as u8
as_u8(v) == v % 256

\* u8::saturating_sub
saturating_sub(a, b) == IF a >= b THEN a - b ELSE 0

\* compare_exchange replaced by a plain store
try_transition_state_store(state, from, to) == [ok |-> TRUE, state |-> to]

\* volume_state.compare_exchange(from, to).is_ok(): [ok, state]
try_transition_state(state, from, to) ==
    [ok |-> state = from, state |-> IF state = from THEN to ELSE state]

IdleRequest ==
    [pc |-> "idle", level |-> "none", found |-> "none", touched |-> FALSE,
     current_volume |-> NoVolume, failed |-> FALSE]

InitDuckVars(volumes, configs) ==
    /\ volume_state = "Normal"
    /\ original_volume = NoVolume
    /\ spotify_volume \in volumes
    /\ duck_config \in configs
    /\ requests = [r \in DuckThreads |-> IdleRequest]
    /\ duck_calls = 0
    /\ duck_out = [thread |-> 0, request |-> IdleRequest]

DuckReturn(r, req) ==
    /\ requests' = [requests EXCEPT ![r] = IdleRequest]
    /\ duck_out' = [thread |-> r, request |-> req]

\* handle_volume_change(level)
HandleVolumeChange(r, level) ==
    /\ requests[r].pc = "idle"
    /\ duck_calls < MaxDuckCalls
    /\ duck_calls' = duck_calls + 1
    /\ requests' = [requests EXCEPT ![r] = [IdleRequest EXCEPT !.pc = "load", !.level = level]]
    /\ UNCHANGED <<volume_state, original_volume, spotify_volume, duck_config, duck_out>>
    /\ UNCHANGED nonDuckVars

\* the state in which a request of this level goes on to change the volume
ProceedsFrom(level) == IF level = "Reduced" THEN "Normal" ELSE "Reduced"
\* the state in which it waits 50 ms and tries again
RetriesFrom(level) == IF level = "Reduced" THEN "Restoring" ELSE "Reducing"
InProgress(level) == IF level = "Reduced" THEN "Reducing" ELSE "Restoring"

\* handle_reduce_volume / handle_restore_volume: get_current_state() and the match
LoadState(r) ==
    /\ requests[r].pc = "load"
    /\ LET req == [requests[r] EXCEPT !.found = volume_state]
       IN  IF volume_state = ProceedsFrom(req.level)
           THEN /\ requests' = [requests EXCEPT ![r] = [req EXCEPT !.pc = "transition"]]
                /\ UNCHANGED duck_out
           ELSE IF volume_state = RetriesFrom(req.level)
           THEN /\ requests' = [requests EXCEPT ![r] = req]
                /\ UNCHANGED duck_out
           ELSE DuckReturn(r, req)
    /\ UNCHANGED <<volume_state, original_volume, spotify_volume, duck_config, duck_calls>>
    /\ UNCHANGED nonDuckVars

\* try_transition_state(Normal, Reducing) / (Reduced, Restoring)
BeginTransition(r) ==
    /\ requests[r].pc = "transition"
    /\ LET req == requests[r]
           t == try_transition_state(volume_state, ProceedsFrom(req.level), InProgress(req.level))
       IN  /\ volume_state' = t.state
           /\ IF t.ok
              THEN /\ requests' = [requests EXCEPT ![r].pc = "perform", ![r].touched = TRUE]
                   /\ UNCHANGED duck_out
              ELSE DuckReturn(r, req)
    /\ UNCHANGED <<original_volume, spotify_volume, duck_config, duck_calls>>
    /\ UNCHANGED nonDuckVars

\* perform_volume_reduction: get_current_spotify_volume()?, original_volume;
\* perform_volume_restoration: original.take()
PerformRead(r) ==
    /\ requests[r].pc = "perform"
    /\ IF requests[r].level = "Reduced"
       THEN \E ok \in BOOLEAN :
              IF ok
              THEN /\ original_volume' = IF original_volume = NoVolume
                                         THEN spotify_volume ELSE original_volume
                   /\ requests' = [requests EXCEPT ![r].pc = "set",
                                                   ![r].current_volume = spotify_volume]
              ELSE /\ requests' = [requests EXCEPT ![r].pc = "finish", ![r].failed = TRUE]
                   /\ UNCHANGED original_volume
       ELSE /\ original_volume' = NoVolume
            /\ requests' = [requests EXCEPT
                   ![r].pc = IF original_volume = NoVolume THEN "finish" ELSE "set",
                   ![r].current_volume = original_volume]
    /\ UNCHANGED <<volume_state, spotify_volume, duck_config, duck_calls, duck_out>>
    /\ UNCHANGED nonDuckVars

\* the volume a reduction sets
target_volume(current_volume) ==
    IF duck_config.recording_volume # NoVolume
    THEN as_u8(duck_config.recording_volume)
    ELSE saturating_sub(current_volume, as_u8(duck_config.reduce_by))

\* set_spotify_volume(target_volume) / set_spotify_volume(volume)
PerformSet(r) ==
    /\ requests[r].pc = "set"
    /\ \E ok \in BOOLEAN :
         /\ spotify_volume' =
                IF ~ok THEN spotify_volume
                ELSE IF requests[r].level = "Reduced"
                     THEN target_volume(requests[r].current_volume)
                     ELSE requests[r].current_volume
         /\ requests' = [requests EXCEPT ![r].pc = "finish", ![r].failed = ~ok]
    /\ UNCHANGED <<volume_state, original_volume, duck_config, duck_calls, duck_out>>
    /\ UNCHANGED nonDuckVars

\* match &result: the transition to Reduced / Normal, or the rollback
FinishTransition(r) ==
    /\ requests[r].pc = "finish"
    /\ LET req == requests[r]
           to == IF req.failed THEN ProceedsFrom(req.level)
                 ELSE IF req.level = "Reduced" THEN "Reduced" ELSE "Normal"
       IN  /\ volume_state' = try_transition_state(volume_state, InProgress(req.level), to).state
           /\ DuckReturn(r, req)
    /\ UNCHANGED <<original_volume, spotify_volume, duck_config, duck_calls>>
    /\ UNCHANGED nonDuckVars

DuckStep(r) ==
    \/ \E level \in {"Reduced", "Normal"} : HandleVolumeChange(r, level)
    \/ LoadState(r) \/ BeginTransition(r) \/ PerformRead(r) \/ PerformSet(r)
    \/ FinishTransition(r)

(***************************************************************************)
(* shortcut_listener.rs, controllers.rs, app.rs: the threads of the        *)
(* pipeline and the locks they take.  The keyboard-hook thread and the     *)
(* delayed-poll thread hand an action to Controllers::handle_action under  *)
(* the engine write lock; the thread of the main loop runs                 *)
(* Controllers::shutdown; handle_stop spawns a transcription asr_task.  A      *)
(* recorder command is one step: the worker answers every command          *)
(* (SpecRecorder, SpecShutdown).  The observer's hooks are the steps of    *)
(* HookBody; the hooks of the other components return.                     *)
(***************************************************************************)
\* actions handed to the handler_call
MaxActions == 3

ListenerThreads == {"hook", "poll"}
ShortcutActions == {"Start", "Stop", "Cancel", "Pause"}
IdleHandler == [pc |-> "idle", by |-> "none", action |-> "none", calls_before |-> 0]

InitPipelineVars ==
    /\ engine_lock = Unlocked
    /\ audio_lock = Unlocked
    /\ asr_lock = Unlocked
    /\ should_stop = FALSE
    /\ handler_call = IdleHandler
    /\ rec = "idle"
    /\ asr_task = "none"
    /\ shut_pc = "none"
    /\ actions_made = 0

\* listen_callback / the delayed-poll loop: should_stop.load(), engine.write(),
\* process_event / poll_delayed_action returns an action, handle_action(action)
HandleAction(t) ==
    /\ engine_lock = Unlocked
    /\ ~should_stop
    /\ actions_made < MaxActions
    /\ hook_calls_made["handler"] < MaxHookCalls
    /\ spawned < MaxWorkers
    /\ \E action \in ShortcutActions :
         /\ action = "Stop" => asr_task = "none"
         /\ handler_call' = [pc |-> "begin", by |-> t, action |-> action,
                        calls_before |-> hook_calls_made["handler"]]
    /\ engine_lock' = t
    /\ actions_made' = actions_made + 1
    /\ UNCHANGED <<audio_lock, asr_lock, should_stop, rec, asr_task, shut_pc>>
    /\ UNCHANGED nonPipelineVars

\* handle_start / handle_stop / handle_pause / handle_resume: self.audio.lock();
\* handle_cancel and the Pause arm: self.audio.try_lock()
HandlerLockAudio ==
    /\ handler_call.pc = "begin"
    /\ IF handler_call.action \in {"Start", "Stop"}
       THEN /\ audio_lock = Unlocked
            /\ audio_lock' = "handler"
            /\ handler_call' = [handler_call EXCEPT !.pc = "command"]
       ELSE IF handler_call.action = "Cancel"
       THEN IF audio_lock = Unlocked
            THEN audio_lock' = "handler" /\ handler_call' = [handler_call EXCEPT !.pc = "command"]
            ELSE audio_lock' = audio_lock /\ handler_call' = [handler_call EXCEPT !.pc = "notify"]
       ELSE IF audio_lock = Unlocked
            THEN /\ audio_lock' = audio_lock
                 /\ handler_call' = [handler_call EXCEPT !.pc = "lock_audio",
                                    !.action = IF rec = "paused" THEN "Resume" ELSE "Pause"]
            ELSE audio_lock' = audio_lock /\ handler_call' = [handler_call EXCEPT !.pc = "release"]
    /\ UNCHANGED <<engine_lock, asr_lock, should_stop, rec, asr_task, shut_pc, actions_made>>
    /\ UNCHANGED nonPipelineVars

\* handle_pause / handle_resume: self.audio.lock() after the try_lock guard was dropped
HandlerLockAudioAgain ==
    /\ handler_call.pc = "lock_audio"
    /\ audio_lock = Unlocked
    /\ audio_lock' = "handler"
    /\ handler_call' = [handler_call EXCEPT !.pc = "command"]
    /\ UNCHANGED <<engine_lock, asr_lock, should_stop, rec, asr_task, shut_pc, actions_made>>
    /\ UNCHANGED nonPipelineVars

\* the recorder after the worker has handled cmd, and whether the call returns Ok
command_result(state, cmd, stream_ok) ==
    IF state = "gone" THEN [rec |-> state, ok |-> FALSE]
    ELSE IF cmd = "Start"
    THEN IF state = "recording" THEN [rec |-> state, ok |-> FALSE]
         ELSE IF stream_ok THEN [rec |-> "recording", ok |-> TRUE]
         ELSE [rec |-> state, ok |-> FALSE]
    ELSE IF cmd \in {"Stop", "Cancel"}
    THEN IF state = "idle" THEN [rec |-> state, ok |-> FALSE]
         ELSE [rec |-> "idle", ok |-> TRUE]
    ELSE IF cmd = "Pause"
    THEN IF state = "recording" THEN [rec |-> "paused", ok |-> TRUE]
         ELSE [rec |-> state, ok |-> FALSE]
    ELSE IF state = "paused" /\ stream_ok THEN [rec |-> "recording", ok |-> TRUE]
         ELSE [rec |-> state, ok |-> FALSE]

\* audio.start_recording() / stop_recording() / pause_recording() /
\* resume_recording(), then the guard of self.audio is dropped
HandlerCommand ==
    /\ handler_call.pc = "command"
    /\ \E stream_ok \in BOOLEAN :
         LET r == command_result(rec, handler_call.action, stream_ok)
         IN  /\ rec' = r.rec
             /\ handler_call' = [handler_call EXCEPT !.pc =
                    IF handler_call.action = "Cancel" \/ (r.ok /\ handler_call.action \in {"Start", "Stop"})
                    THEN "notify" ELSE "release"]
    /\ audio_lock' = Unlocked
    /\ UNCHANGED <<engine_lock, asr_lock, should_stop, asr_task, shut_pc, actions_made>>
    /\ UNCHANGED nonPipelineVars

\* the observer hook a broadcast calls
HookOf(action) ==
    IF action = "Start" THEN "start" ELSE IF action = "Stop" THEN "stop" ELSE "cancel"

\* registry.notify_start() / notify_stop() / notify_cancel() reaches the observer
HandlerNotify ==
    /\ handler_call.pc = "notify"
    /\ hook_calls_made["handler"] = handler_call.calls_before
    /\ CallHook("handler", HookOf(handler_call.action))

\* the broadcast has returned; handle_stop: thread::spawn(process_transcription)
HandlerNotified ==
    /\ handler_call.pc = "notify"
    /\ hook_calls_made["handler"] > handler_call.calls_before
    /\ hooks["handler"].pc = "idle"
    /\ asr_task' = IF handler_call.action = "Stop" THEN "spawned" ELSE asr_task
    /\ handler_call' = [handler_call EXCEPT !.pc = "release"]
    /\ UNCHANGED <<engine_lock, audio_lock, asr_lock, should_stop, rec, shut_pc, actions_made>>
    /\ UNCHANGED nonPipelineVars

\* handle_action returns and the engine guard is dropped
HandlerRelease ==
    /\ handler_call.pc = "release"
    /\ handler_call' = IdleHandler
    /\ engine_lock' = Unlocked
    /\ UNCHANGED <<audio_lock, asr_lock, should_stop, rec, asr_task, shut_pc, actions_made>>
    /\ UNCHANGED nonPipelineVars

\* process_transcription: TranscriptionService::transcribe locks the engine Mutex
TaskTranscribe ==
    /\ asr_task = "spawned"
    /\ asr_lock = Unlocked
    /\ asr_lock' = "task"
    /\ asr_task' = "transcribing"
    /\ UNCHANGED <<engine_lock, audio_lock, should_stop, handler_call, rec, shut_pc, actions_made>>
    /\ UNCHANGED nonPipelineVars

\* process_transcription: transcribe returns, notify_processing_complete / notify_error
TaskComplete ==
    /\ asr_task = "transcribing"
    /\ asr_lock' = Unlocked
    /\ asr_task' = "none"
    /\ UNCHANGED <<engine_lock, audio_lock, should_stop, handler_call, rec, shut_pc, actions_made>>
    /\ UNCHANGED nonPipelineVars

\* run_main_event_loop: control.stop(), controllers.shutdown(); shutdown:
\* self.audio.lock(), audio.is_recording(), the guard is dropped
ControllersShutdown ==
    /\ shut_pc = "none"
    /\ audio_lock = Unlocked
    /\ should_stop' = TRUE
    /\ shut_pc' = IF rec = "recording" THEN "notify_cancel" ELSE "lock_audio"
    /\ UNCHANGED <<engine_lock, audio_lock, asr_lock, handler_call, rec, asr_task, actions_made>>
    /\ UNCHANGED nonPipelineVars

\* shutdown: self.registry.notify_cancel() reaches the observer
ShutdownNotify ==
    /\ shut_pc = "notify_cancel"
    /\ hook_calls_made["shutdown"] = 0
    /\ CallHook("shutdown", "cancel")

\* shutdown: notify_cancel has returned; self.audio.lock()
ShutdownLockAudio ==
    /\ \/ shut_pc = "lock_audio"
       \/ shut_pc = "notify_cancel" /\ hook_calls_made["shutdown"] > 0
                                    /\ hooks["shutdown"].pc = "idle"
    /\ audio_lock = Unlocked
    /\ audio_lock' = "shutdown"
    /\ shut_pc' = "audio_shutdown"
    /\ UNCHANGED <<engine_lock, asr_lock, should_stop, handler_call, rec, asr_task, actions_made>>
    /\ UNCHANGED nonPipelineVars

\* shutdown: audio.shutdown() under the guard
ShutdownAudio ==
    /\ shut_pc = "audio_shutdown"
    /\ rec' = "gone"
    /\ audio_lock' = Unlocked
    /\ shut_pc' = "model"
    /\ UNCHANGED <<engine_lock, asr_lock, should_stop, handler_call, asr_task, actions_made>>
    /\ UNCHANGED nonPipelineVars

\* shutdown: TranscriptionService::global().shutdown_model()
ShutdownModel ==
    /\ shut_pc = "model"
    /\ asr_lock = Unlocked
    /\ shut_pc' = "returned"
    /\ UNCHANGED <<engine_lock, audio_lock, asr_lock, should_stop, handler_call, rec, asr_task,
                   actions_made>>
    /\ UNCHANGED nonPipelineVars

HandlerStep ==
    \/ HandlerLockAudio \/ HandlerLockAudioAgain \/ HandlerCommand
    \/ HandlerNotify \/ HandlerNotified \/ HandlerRelease

ShutdownStep ==
    \/ ShutdownNotify \/ ShutdownLockAudio \/ ShutdownAudio \/ ShutdownModel

TaskStep == TaskTranscribe \/ TaskComplete

\* the steps inside a hook whose collector holds no speech: on_stop and
\* on_cancel find nothing to transcribe
QuietHookBody(t) ==
    \/ OnStartSwap(t) \/ OnStartResetReader(t) \/ OnStartSpawn(t) \/ OnStartStoreHandle(t)
    \/ OnStopStore(t) \/ OnStopTake(t) \/ OnStopJoin(t) \/ OnStopCollector(t)

ObserverHookStep == \E t \in HookThreads : QuietHookBody(t)
(***************************************************************************)
(* Calls of parse_pattern and of analyze_and_mark_conflicts on inputs      *)
(* drawn from bounded sets                                                 *)
(***************************************************************************)
MaxComboLen == 3
MaxPatterns == 3

\* key names as they are written in a configuration; "Bogus" is no key name
ParserNames == {"Control", "Shift", "Alt", "ControlLeft", "ShiftRight", "F1", "Esc", "Bogus"}
ParserInputs ==
    {SingleCfg(n) : n \in ParserNames}
    \cup {DoubleCfg(n, t) : n \in ParserNames, t \in {150, DefaultDoubleTimeout}}
    \cup {ComboCfg(names) : names \in UNION {[1..n -> ParserNames] : n \in 2..MaxComboLen}}

\* freshly constructed patterns, several of them on the same trigger key
ResolverPatterns ==
    {SingleKeyPattern_new("ControlLeft", "Start"), SingleKeyPattern_new("ShiftLeft", "Pause"),
     DoubleTapPattern_new("ControlLeft", 150, "Cancel"),
     DoubleTapPattern_new("ControlLeft", DefaultDoubleTimeout, "Stop"),
     DoubleTapPattern_new("ShiftLeft", 150, "Cancel"),
     ComboPattern_new(<<"ControlLeft", "ShiftLeft">>, "Cancel")}
ResolverInputs == UNION {[1..n -> ResolverPatterns] : n \in 1..MaxPatterns}

NotParsed == [kind |-> None, names |-> <<>>, timeout_ms |-> NoTime]

InitSetupVars(cfgs, lists) ==
    /\ parse_in \in cfgs
    /\ parse_out = [done |-> FALSE, patterns |-> <<>>]
    /\ res_in \in lists
    /\ res_out = <<>>

\* parse_pattern(input, action); an Err leaves no pattern
ParsePattern ==
    /\ parse_in # NotParsed
    /\ ~parse_out.done
    /\ parse_out' = [done |-> TRUE, patterns |-> parse_pattern(parse_in, "Start")]
    /\ UNCHANGED <<parse_in, res_in, res_out>>
    /\ UNCHANGED nonSetupVars

\* ConflictResolver::new(buffer_ms).analyze_and_mark_conflicts(&mut patterns)
AnalyzeConflicts ==
    /\ res_in # <<>>
    /\ res_out = <<>>
    /\ res_out' = analyze_and_mark_conflicts(res_in, buffer_ms)
    /\ UNCHANGED <<parse_in, parse_out, res_in>>
    /\ UNCHANGED nonSetupVars


InitExtraVars ==
    /\ InitShutdownVars
    /\ InitCollectorVars
    /\ InitObserverVars
    /\ InitDuckVars({50}, {DuckExact})
    /\ InitPipelineVars
(***************************************************************************)
(* registry.rs: the two maps of ComponentRegistry, register, get_by_name,  *)
(* initialize_all and RegistryBuilder::build.  A component is              *)
(* [id, tag, name, mode]: id tells the objects apart, tag is type_id().    *)
(***************************************************************************)
MaxRegisters == 3

TypeTags == {"AudioComponent", "SpotifyComponent", "TranscriptionHandler"}
ComponentNames == {"audio", "spotify"}
ExecutionMode == {"Parallel", "Sequential"}

NewComponent(id, tag, name, mode) == [id |-> id, tag |-> tag, name |-> name, mode |-> mode]
NoComponent == NewComponent(0, None, None, None)

EmptyTable == [components |-> [t \in TypeTags |-> NoComponent],
               components_by_name |-> [n \in ComponentNames \cup TypeTags |-> NoComponent]]

\* [result, table]
register(table, component) ==
    IF table.components[component.tag] # NoComponent
    THEN [result |-> "Err", table |-> table]
    ELSE [result |-> "Ok",
          table |-> [components |-> [table.components EXCEPT ![component.tag] = component],
                     components_by_name |->
                         [table.components_by_name EXCEPT ![component.name] = component]]]

get_by_name(table, name) == table.components_by_name[name]

\* the registries of three components with their own names, in every mix of modes
BuiltTables ==
    {register(register(register(EmptyTable,
         NewComponent(1, "AudioComponent", "AudioComponent", m[1])).table,
         NewComponent(2, "SpotifyComponent", "SpotifyComponent", m[2])).table,
         NewComponent(3, "TranscriptionHandler", "TranscriptionHandler", m[3])).table
       : m \in [1..3 -> ExecutionMode]}

NotRun == [preload |-> "no", initialize |-> "no"]

InitTableVars(tables) ==
    /\ \E table \in tables :
         /\ components = table.components
         /\ components_by_name = table.components_by_name
         /\ first_by_tag = table.components
    /\ register_out = [component |-> NoComponent, result |-> None]
    /\ registers = 0
    /\ init_pc = "idle"
    /\ init_status = [t \in TypeTags |-> NotRun]
    /\ sequential_left = <<>>
    /\ failed_components = {}
    /\ build_result = None

InitOtherVars ==
    /\ InitExtraVars /\ InitBufferVars /\ InitStreamVars({NoAttempts})
    /\ InitSetupVars({NotParsed}, {<<>>}) /\ InitTableVars({EmptyTable})

\* ComponentRegistry::register(component)
Register ==
    /\ registers < MaxRegisters
    /\ \E tag \in TypeTags, name \in ComponentNames, mode \in ExecutionMode :
         LET component == NewComponent(registers + 1, tag, name, mode)
             r == register([components |-> components,
                            components_by_name |-> components_by_name], component)
         IN  /\ components' = r.table.components
             /\ components_by_name' = r.table.components_by_name
             /\ register_out' = [component |-> component, result |-> r.result]
             /\ first_by_tag' = IF first_by_tag[tag] = NoComponent
                                THEN [first_by_tag EXCEPT ![tag] = component]
                                ELSE first_by_tag
    /\ registers' = registers + 1
    /\ UNCHANGED <<init_pc, init_status, sequential_left, failed_components, build_result>>
    /\ UNCHANGED nonTableVars

Registered(mode) == {t \in TypeTags : components[t] # NoComponent /\ components[t].mode = mode}

\* what a component's hooks do when asked: Ok(()), Err(..), or a panic
HookResults == {"ok", "err", "panic"}

\* preload as if it never failed, then initialize
preload_then_initialize_unchecked(p, i) == [preload |-> p, initialize |-> i]

\* preload, then initialize unless preload failed
preload_then_initialize(p, i) ==
    [preload |-> p, initialize |-> IF p = "ok" THEN i ELSE "no"]

Failed(status) == status.preload \in {"err", "panic"} \/ status.initialize \in {"err", "panic"}

\* initialize_all: the two lists are collected
InitializeAllBegin ==
    /\ init_pc = "idle"
    /\ init_pc' = "parallel"
    /\ \E order \in Perms(Registered("Sequential")) : sequential_left' = order
    /\ UNCHANGED <<components, components_by_name, register_out, first_by_tag, registers,
                   init_status, failed_components, build_result>>
    /\ UNCHANGED nonTableVars

\* the closure spawned for a parallel component; a panic ends its thread only
ParallelTask ==
    /\ init_pc = "parallel"
    /\ \E t \in Registered("Parallel"), p \in HookResults, i \in HookResults :
         /\ init_status[t] = NotRun
         /\ init_status' = [init_status EXCEPT ![t] = preload_then_initialize(p, i)]
    /\ UNCHANGED <<components, components_by_name, register_out, first_by_tag, registers,
                   init_pc, sequential_left, failed_components, build_result>>
    /\ UNCHANGED nonTableVars

\* for handle in handles { match handle.join() .. }: every thread has ended
JoinParallel ==
    /\ init_pc = "parallel"
    /\ \A t \in Registered("Parallel") : init_status[t] # NotRun
    /\ failed_components' = {t \in Registered("Parallel") : Failed(init_status[t])}
    /\ init_pc' = "sequential"
    /\ UNCHANGED <<components, components_by_name, register_out, first_by_tag, registers,
                   init_status, sequential_left, build_result>>
    /\ UNCHANGED nonTableVars

\* one turn of the loop over the sequential components, on the calling thread;
\* their hooks return Ok or Err
SequentialComponent ==
    /\ init_pc = "sequential"
    /\ sequential_left # <<>>
    /\ \E p \in {"ok", "err"}, i \in {"ok", "err"} :
         LET t == Head(sequential_left)
             status == preload_then_initialize(p, i)
         IN  /\ init_status' = [init_status EXCEPT ![t] = status]
             /\ failed_components' = IF Failed(status) THEN failed_components \cup {t}
                                     ELSE failed_components
    /\ sequential_left' = Tail(sequential_left)
    /\ UNCHANGED <<components, components_by_name, register_out, first_by_tag, registers,
                   init_pc, build_result>>
    /\ UNCHANGED nonTableVars

\* the return of initialize_all, which build hands on with `?`
InitializeAllReturn ==
    /\ init_pc = "sequential"
    /\ sequential_left = <<>>
    /\ build_result' = IF failed_components # {} THEN "Err" ELSE "Ok"
    /\ init_pc' = "returned"
    /\ UNCHANGED <<components, components_by_name, register_out, first_by_tag, registers,
                   init_status, sequential_left, failed_components>>
    /\ UNCHANGED nonTableVars

(***************************************************************************)
(* Specifications                                                          *)
(***************************************************************************)
vars == <<engineVars, recorderVars, registryVars, controllerVars, otherVars>>

InitEngineWith(configs, stored) ==
    /\ pattern_configs \in configs
    /\ stored_configs \in stored
    /\ matcher = IF stored_configs THEN new_with_patterns_matcher(pattern_configs)
                 ELSE default_matcher(pattern_configs)
    /\ current_state = "Idle"
    /\ pending_delayed = <<>>
    /\ delayed_counter = 0
    /\ now = 0
    /\ last = CallRecord("New", None, "Idle", None, None, -1, {}, FALSE, FALSE)
    /\ prev = NoPrev
    /\ combo_seq = NoComboSeq
    /\ walk = 0
    /\ fr_press = NoPress

\* everything around the engine as constructed
InitRest ==
    /\ InitRecorderVars
    /\ InitRegistryVars
    /\ InitControllerVars(FALSE)
    /\ InitOtherVars

\* engines built by new_with_patterns and by default() from the pattern sets of the tests
InitEngine == InitEngineWith(EngineConfigs, BOOLEAN) /\ InitRest
NextEngine == KeyPress \/ KeyRelease \/ PollDelayed
SpecEngine == InitEngine /\ [][NextEngine]_vars

\* the engine the listener creates: MatcherEngine::default()
InitDefaultEngine == InitEngineWith(UserConfigs, {FALSE}) /\ InitRest
SpecDefaultEngine == InitDefaultEngine /\ [][NextEngine]_vars

\* the engine of the listener with two delayed singles of different delays; the
\* polling thread of run_listen_loop calls poll_delayed_action every 10 ms for as
\* long as the listener runs, so a poll at a later time, or one that finds an
\* expired entry, is not put off for ever
InitPolling == InitEngineWith({CfgMixedDelays}, {FALSE}) /\ InitRest
SpecBacklog == InitPolling /\ [][NextEngine]_vars
\* what a step PollDelayed does to the clock, the pending list and the call record
PollCall ==
    \E dt \in Elapsed :
        LET trig == check_and_trigger_delayed(pending_delayed, now + dt)
            new_state == IF trig.action # None
                         THEN determine_next_state(trig.action, current_state)
                         ELSE current_state
        IN /\ now + dt <= MaxTime
           /\ now' = now + dt
           /\ pending_delayed' = trig.pending
           /\ last' = CallRecord("Poll", None, current_state, trig.action, None, trig.id, {},
                                 new_state # current_state, FALSE)
SpecPolling == InitPolling /\ [][NextEngine]_vars /\ WF_<<now, pending_delayed>>(PollCall)

\* one SmartCollector given chunks of any length, loud or silent
SpecCollector == InitEngine /\ [][ProcessChunk]_vars

\* the real-time observer: its hooks called by a handler and by shutdown,
\* its workers and the audio callback that fills the ring buffer
NextObserver == AudioWrite \/ WorkerStep \/ \E t \in HookThreads : HookStep(t)
InitObserver == InitEngineWith({CfgComprehensive}, {FALSE}) /\ InitRest
SpecObserver == InitObserver /\ [][NextObserver]_vars

\* the observer with the hooks of one thread only
NextObserverSerial == AudioWrite \/ WorkerStep \/ HookStep("handler")
SpecObserverSerial == InitObserver /\ [][NextObserverSerial]_vars

\* the threads of the pipeline while no audio arrives: the workers only poll.  Every
\* thread that can take a step does so in the end; key events and the shutdown
\* request come or do not come.
PollingWorkerStep(w) == WorkerLoop(w) \/ WorkerPoll(w)
NextPipeline ==
    \/ \E t \in ListenerThreads : HandleAction(t)
    \/ ControllersShutdown
    \/ HandlerStep \/ ShutdownStep \/ TaskStep \/ ObserverHookStep
    \/ \E w \in WorkerIds : PollingWorkerStep(w)
SpecPipeline ==
    /\ InitObserver /\ [][NextPipeline]_vars
    /\ WF_vars(HandlerStep) /\ WF_vars(ShutdownStep) /\ WF_vars(TaskStep)
    /\ \A t \in HookThreads : WF_vars(QuietHookBody(t))
    /\ \A w \in WorkerIds : WF_vars(PollingWorkerStep(w))

\* the handlers, their hooks and the workers, without a shutdown
NextPipelineHandlers ==
    \/ \E t \in ListenerThreads : HandleAction(t)
    \/ HandlerStep \/ TaskStep \/ QuietHookBody("handler")
    \/ \E w \in WorkerIds : PollingWorkerStep(w)
SpecPipelineHandlers ==
    /\ InitObserver /\ [][NextPipelineHandlers]_vars
    /\ WF_vars(HandlerStep) /\ WF_vars(TaskStep)
    /\ WF_vars(QuietHookBody("handler"))
    /\ \A w \in WorkerIds : WF_vars(PollingWorkerStep(w))

\* the same threads with the audio callback filling the ring buffer
NextPipelineAudio ==
    \/ NextPipeline \/ WorkerStep \/ AudioWrite
    \/ \E t \in HookThreads : OnStopTranscribe(t)
SpecPipelineAudio == InitObserver /\ [][NextPipelineAudio]_vars

\* the ducking component called from several threads at once
NextDucking == \E r \in DuckThreads : DuckStep(r)
InitDucking ==
    /\ InitEngineWith({CfgFKeys}, {FALSE})
    /\ InitRecorderVars /\ InitRegistryVars /\ InitControllerVars(FALSE)
    /\ InitShutdownVars /\ InitCollectorVars /\ InitObserverVars
    /\ InitDuckVars(PlayerVolumes, DuckConfigs) /\ InitPipelineVars
    /\ InitBufferVars /\ InitStreamVars({NoAttempts})
    /\ InitSetupVars({NotParsed}, {<<>>}) /\ InitTableVars({EmptyTable})
SpecDucking == InitDucking /\ [][NextDucking]_vars

\* engines whose patterns are combos of three and of two keys
InitCombo == InitEngineWith({CfgCombo3}, BOOLEAN) /\ InitRest
SpecCombo == InitCombo /\ [][NextEngine]_vars

\* one AudioRecorder handle, its worker thread and the input callback
InitRecorder == InitEngineWith({CfgFKeys}, {FALSE}) /\ InitRest
NextRecorder == Call \/ Receive \/ Timeout \/ WorkerHandle \/ AudioCallback \/ DropRecorder
SpecRecorder == InitRecorder /\ [][NextRecorder]_vars

\* a handle on which shutdown() is called, or which is dropped, at any moment.  The
\* worker thread runs its loop while commands are queued, recv_timeout returns
\* within its time limit, and shutdown() goes on once the call it waits for returns.
NextShutdown == NextRecorder \/ ShutdownBegin \/ ShutdownSend \/ ShutdownJoin
SpecShutdown ==
    /\ InitRecorder /\ [][NextShutdown]_vars
    /\ WF_vars(WorkerHandle) /\ WF_vars(Receive \/ Timeout)
    /\ WF_vars(ShutdownSend) /\ WF_vars(ShutdownJoin)

\* notify_* calls on a registry of NumComponents components
InitRegistry == InitEngineWith({CfgFKeys}, {FALSE}) /\ InitRest
NextRegistry == NotifyBegin \/ SpawnTask \/ HookRun \/ JoinHandle \/ NotifyReturn
SpecRegistry == InitRegistry /\ [][NextRegistry]_vars

\* the listener, the controllers, the recorder worker and the transcription
\* threads, with transcribe_on_pause set so that a pause spawns a transcription too
InitController ==
    /\ InitEngineWith({CfgFKeys}, {FALSE})
    /\ InitRecorderVars
    /\ InitRegistryVars
    /\ InitControllerVars(TRUE)
    /\ InitOtherVars
NextController ==
    \/ ListenCallback \/ ListenPoll \/ HandlerReceive \/ HandlerTimeout
    \/ WorkerHandle \/ AudioCallback \/ ProcessingStart \/ Transcribe
SpecController == InitController /\ [][NextController]_vars


\* calls on one DynamicBuffer
NextDynamicBuffer == DynWrite \/ DynReadAll \/ DynReset
SpecDynamicBuffer == InitRegistry /\ [][NextDynamicBuffer]_vars

\* calls on one RingBuffer
NextRingBuffer == RingWrite \/ RingReadChunk \/ RingResetReader
SpecRingBuffer == InitRegistry /\ [][NextRingBuffer]_vars

\* create_stream_with_retry on every sequence of answers of RetryInputs
InitStreamRetry ==
    /\ InitEngineWith({CfgFKeys}, {FALSE})
    /\ InitRecorderVars /\ InitRegistryVars /\ InitControllerVars(FALSE)
    /\ InitExtraVars /\ InitBufferVars /\ InitStreamVars(RetryInputs)
    /\ InitSetupVars({NotParsed}, {<<>>}) /\ InitTableVars({EmptyTable})
SpecStreamRetry == InitStreamRetry /\ [][CreateStreamWithRetry]_vars

\* the input callback of an open stream and the worker, on one DynamicBuffer and
\* one RingBuffer
NextCallback ==
    \/ WorkerLock \/ WorkerUnlock
    \/ CallbackBegin \/ CallbackLock \/ CallbackWrite \/ CallbackRing
SpecCallback == InitRegistry /\ [][NextCallback]_vars

\* parse_pattern on every textual pattern of ParserInputs
InitParser ==
    /\ InitEngineWith({CfgFKeys}, {FALSE})
    /\ InitRecorderVars /\ InitRegistryVars /\ InitControllerVars(FALSE)
    /\ InitExtraVars /\ InitBufferVars /\ InitStreamVars({NoAttempts}) /\ InitSetupVars(ParserInputs, {<<>>}) /\ InitTableVars({EmptyTable})
SpecParser == InitParser /\ [][ParsePattern]_vars

\* analyze_and_mark_conflicts on every pattern list of ResolverInputs
InitResolver ==
    /\ InitEngineWith({CfgFKeys}, {FALSE})
    /\ InitRecorderVars /\ InitRegistryVars /\ InitControllerVars(FALSE)
    /\ InitExtraVars /\ InitBufferVars /\ InitStreamVars({NoAttempts}) /\ InitSetupVars({NotParsed}, ResolverInputs) /\ InitTableVars({EmptyTable})
SpecResolver == InitResolver /\ [][AnalyzeConflicts]_vars

\* register calls on one registry
InitRegister == InitRegistry
SpecRegister == InitRegister /\ [][Register]_vars

\* initialize_all, as build calls it, on the registries of BuiltTables
InitInitializeAll ==
    /\ InitEngineWith({CfgFKeys}, {FALSE})
    /\ InitRecorderVars /\ InitRegistryVars /\ InitControllerVars(FALSE)
    /\ InitExtraVars /\ InitBufferVars /\ InitStreamVars({NoAttempts}) /\ InitSetupVars({NotParsed}, {<<>>}) /\ InitTableVars(BuiltTables)
NextInitializeAll ==
    \/ InitializeAllBegin \/ ParallelTask \/ JoinParallel \/ SequentialComponent
    \/ InitializeAllReturn
SpecInitializeAll == InitInitializeAll /\ [][NextInitializeAll]_vars
(***************************************************************************)
(* Properties of the matcher engine                                        *)
(***************************************************************************)
Available(state) == Range(get_available_actions(state))

\* C1 (State-action consistency): an action returned by process_event_with_time or
\* poll_delayed_action while the engine is in state S, the state before the call's
\* own transition, belongs to the available set of S.
StateActionConsistency ==
    last.action # None => last.action \in Available(last.state_before)

\* the table of C6, written out
TransitionTable ==
    [Idle |-> [Start |-> "Active"],
     Active |-> [Stop |-> "Idle", Cancel |-> "Idle", Pause |-> "Paused"],
     Paused |-> [Stop |-> "Idle", Cancel |-> "Idle", Pause |-> "Active"]]

ScenarioStates == <<"Active", "Paused", "Idle", "Active", "Idle">>

\* C6 (Engine transitions): after the engine returns an action a that is available in
\* the state S it was in, its state is the one the table gives for (S, a); and along
\* the returned actions Start, Pause, Cancel, Start, Stop from Idle the engine is in
\* Active, Paused, Idle, Active, Idle in turn.
EngineTransitions ==
    /\ (last.action # None /\ last.action \in Available(last.state_before))
           => current_state = TransitionTable[last.state_before][last.action]
    /\ walk >= 1 => current_state = ScenarioStates[walk]

WitnessEngineTransitions ==
    /\ walk = Len(Scenario)
    /\ last.action = "Stop" /\ last.state_before = "Active" /\ current_state = "Idle"

DoubleTapsOn(m, k) ==
    {i \in 1..Len(m.patterns) : m.patterns[i].type = "DoubleTap" /\ m.patterns[i].sequence = <<k>>}

\* this step is the call `op` on key k
IsCall(op, k) == last'.op = op /\ last'.key = k

\* C2 (Double-tap priority): in a matcher holding a single-key pattern on K and one
\* double-tap pattern double(K, T), a press of K that follows a first press of K by at
\* most T, with no other key event in between and both presses handled by that
\* matcher, returns the double-tap's action, and the delayed actions the first press
\* armed are neither returned by this call nor pending after it.
DoubleTapStep ==
    \A k \in EventKeys(pattern_configs) :
        ( /\ IsCall("Press", k)
          /\ prev.type = "Press" /\ prev.key = k /\ prev.same_matcher /\ ~prev.completed
          /\ HasSingle(matcher, k)
          /\ Cardinality(DoubleTapsOn(matcher, k)) = 1
          /\ \A i \in DoubleTapsOn(matcher, k) : now' - prev.time <= matcher.patterns[i].timeout_ms )
        => /\ \A i \in DoubleTapsOn(matcher, k) : last'.action = matcher.patterns[i].action
           /\ last'.fired_id \notin prev.minted
           /\ \A j \in 1..Len(pending_delayed') : pending_delayed'[j].id \notin prev.minted

DoubleTapPriority == [][DoubleTapStep]_vars

\* the second tap returned the double-tap's action and cancelled the armed single
WitnessDoubleTapPriority ==
    /\ last.op = "Press" /\ last.immediate # None /\ last.cancelled # {}
    /\ last.second_tap

\* the single on k is delayed: it shares its trigger key with double-taps and no combo
DelayedSingleOn(m, k) ==
    /\ HasSingle(m, k)
    /\ DoubleTapsOn(m, k) # {}
    /\ ~\E i \in 1..Len(m.patterns) : m.patterns[i].type = "Combo" /\ m.patterns[i].sequence[1] = k

LongestDoubleTap(m, k) ==
    CHOOSE t \in {m.patterns[i].timeout_ms : i \in DoubleTapsOn(m, k)} :
        \A i \in DoubleTapsOn(m, k) : m.patterns[i].timeout_ms <= t

\* C3 (Delayed single fire): a lone press of K, whose single-key pattern shares its
\* trigger key with double-taps and no combo, returns no action; while no further key
\* event arrives, a poll before t + max(double-tap timeouts) + buffer_ms returns
\* nothing and the first poll at or after that instant returns the single's action.
DelayedSingleStep ==
    /\ \A k \in EventKeys(pattern_configs) :
          ( /\ IsCall("Press", k)
            /\ pending_delayed = <<>> /\ matcher_idle(matcher)
            /\ DelayedSingleOn(matcher, k) )
          => last'.action = None
    /\ ( /\ last'.op = "Poll"
         /\ prev.type = "Press" /\ prev.lone /\ prev.same_matcher
         /\ DelayedSingleOn(matcher, prev.key)
         /\ now < prev.time + LongestDoubleTap(matcher, prev.key) + buffer_ms )
       => last'.action =
              IF now' >= prev.time + LongestDoubleTap(matcher, prev.key) + buffer_ms
              THEN SingleAction(matcher, prev.key)
              ELSE None

DelayedSingleFire == [][DelayedSingleStep]_vars

\* a poll returned the single armed by a lone press
WitnessDelayedSingleFire ==
    /\ last.op = "Poll" /\ last.action # None
    /\ prev.type = "Press" /\ prev.lone /\ last.fired_id \in prev.minted

\* C4 (Combo suppresses single): with a single-key pattern on K1 (action A1) and a
\* combo K1+K2 (action A2) in the matcher, Press(K1), Press(K2), Release(K1),
\* Release(K2) returns A2 on Press(K2), no action on the releases, and leaves no
\* delayed action pending.
ComboSuppressesSingle ==
    /\ (combo_seq.stage = 2 /\ last.op = "Press") => last.action = combo_seq.a2
    /\ (combo_seq.stage \in {3, 4} /\ last.op = "Release") => last.action = None
    /\ (combo_seq.stage = 4 /\ last.op = "Release") => pending_delayed = <<>>

(***************************************************************************)
(* Recorder properties                                                     *)
(***************************************************************************)
\* the worker has just handled a command of the given kind
WorkerAnswered(cmd) == handled' # handled /\ handled'.cmd = cmd

NoDuplicates(samples) ==
    \A i, j \in 1..Len(samples) : samples[i] = samples[j] => i = j

RecorderLifecycleStep ==
    (session.ok /\ ~timed_out /\ WorkerAnswered("StopRecording")
       /\ handled'.response.kind = "Stopped")
    => /\ handled'.response.samples =
            Flatten(session.runs) \o (IF rec_state.is_paused THEN <<>> ELSE session.after_resume)
       /\ NoDuplicates(handled'.response.samples)
\* C5: after Start, (Pause, Resume)*, Stop in which every command succeeded, the
\* samples of the Stopped response are the Paused runs in order followed by the
\* samples captured after the last Resume (none when the Stop is issued while
\* paused), and no sample appears twice.
RecorderLifecycle == [][RecorderLifecycleStep]_vars

StateError(cmd, state) ==
    CASE cmd = "StartRecording" /\ state.stream -> "AlreadyRecording"
      [] cmd = "StopRecording" /\ ~state.stream /\ ~state.is_paused -> "NotRecording"
      [] cmd = "ResumeRecording" /\ ~state.is_paused -> "NotPaused"
      [] OTHER -> None

RecorderStateErrorsStep ==
    (handled' # handled /\ StateError(handled'.cmd, rec_state) # None)
    => /\ handled'.response = ErrorResponse(StateError(handled'.cmd, rec_state))
       /\ rec_state' = rec_state
       /\ shared_state' = shared_state
       /\ worker_alive'
       /\ response_ch' = Append(response_ch, response_ch'[Len(response_ch')])
       /\ response_ch'[Len(response_ch')].answers = handled'.seq
\* C7: StartRecording while a stream exists is answered AlreadyRecording,
\* StopRecording with no stream and not paused NotRecording, ResumeRecording while
\* not paused NotPaused; the stream, the segments, the buffer and both flags stay
\* as they were and the worker stays in its loop, having sent that one response.
RecorderStateErrors == [][RecorderStateErrorsStep]_vars
WitnessRecorderStateErrors ==
    /\ handled.cmd = "StartRecording" /\ handled.response = ErrorResponse("AlreadyRecording")
    /\ rec_state.stream /\ rec_state.buffer # <<>>
    /\ worker_alive

\* C8: once a call has timed out, every later call that receives a response
\* receives the response to its own command, and never an unexpected one.
HandleUsableAfterTimeout ==
    (timed_out /\ reply.answers # 0)
    => reply.answers = reply.seq /\ reply.result # "Unexpected response"

CancelSkipsProcessing ==
    /\ ctl = "handle_cancel" => caller.cmd = "StopRecording"
    /\ notified["on_cancel"] = cancels
    /\ processed \cap cancelled_recs = {}

(***************************************************************************)
(* Stop pipeline                                                           *)
(***************************************************************************)
\* the process_transcription threads that are at the given stage
FinalTasks(stage) == {t \in tasks : t.kind = "final" /\ t.stage = stage}
PartialTasks(stage) == {t \in tasks : t.kind = "partial" /\ t.stage = stage}

\* C11: every Stop whose stop_recording returned Ok made one on_stop broadcast and
\* spawned one process_transcription thread in the same step; that thread makes its
\* on_processing_start broadcast after it, and then exactly one of
\* on_processing_complete or on_error; no such broadcast is made otherwise.  When
\* one Start, one Pause, one Resume and one Stop have been made, all four succeeded
\* and the threads have ended without an ASR failure, each of on_start, on_pause,
\* on_resume, on_stop, on_processing_start and on_processing_complete was
\* broadcast exactly once.
StopPipelineStep ==
    /\ notified'["on_stop"] = ok_calls'["handle_stop"]
    /\ notified'["on_start"] = ok_calls'["handle_start"]
    /\ notified'["on_pause"] = ok_calls'["handle_pause"]
    /\ notified'["on_resume"] = ok_calls'["handle_resume"]
    /\ notified'["on_stop"] # notified["on_stop"] =>
         /\ notified'["on_stop"] = notified["on_stop"] + 1
         /\ \E t \in FinalTasks("start")' : tasks' = tasks \cup {t} /\ t \notin tasks
         /\ notified'["on_processing_start"] = notified["on_processing_start"]
    /\ notified'["on_processing_start"] # notified["on_processing_start"] =>
         /\ notified'["on_processing_start"] = notified["on_processing_start"] + 1
         /\ \E t \in FinalTasks("start") :
              tasks' = (tasks \ {t}) \cup {[t EXCEPT !.stage = "transcribe"]}
         /\ notified'["on_processing_complete"] = notified["on_processing_complete"]
         /\ notified'["on_error"] = notified["on_error"]
    /\ notified'["on_processing_complete"] # notified["on_processing_complete"] =>
         /\ notified'["on_processing_complete"] = notified["on_processing_complete"] + 1
         /\ notified'["on_error"] = notified["on_error"]
         /\ \E t \in FinalTasks("transcribe") : tasks' = tasks \ {t}
    /\ notified'["on_error"] # notified["on_error"] =>
         /\ notified'["on_error"] = notified["on_error"] + 1
         /\ \E t \in FinalTasks("transcribe") \cup PartialTasks("transcribe") :
              tasks' = tasks \ {t}
    /\ notified'["on_stop"] =
         notified'["on_processing_start"] + Cardinality(FinalTasks("start")')
    /\ notified'["on_processing_complete"] + notified'["on_partial_processing_complete"]
         + notified'["on_error"]
       = (notified'["on_processing_start"] - Cardinality(FinalTasks("transcribe")'))
         + (notified'["on_partial_processing_start"]
              - Cardinality(PartialTasks("transcribe")'))
    /\ ( /\ calls' = 4
         /\ \A h \in Handlers \ {"handle_cancel"} : ok_calls'[h] = 1
         /\ tasks' = {}
         /\ notified'["on_error"] = 0 )
       => \A e \in {"on_start", "on_pause", "on_resume", "on_stop",
                    "on_processing_start", "on_processing_complete"} :
            notified'[e] = 1
StopPipeline == [][StopPipelineStep]_vars
WitnessStopPipeline ==
    /\ calls = 4
    /\ \A h \in Handlers \ {"handle_cancel"} : ok_calls[h] = 1
    /\ tasks = {}
    /\ notified["on_error"] = 0
    /\ notified["on_processing_complete"] = 1

(***************************************************************************)
(* Buffers                                                                 *)
(***************************************************************************)
\* C12: read_all returns the concatenation, in call order, of the slices written
\* since the last read_all or reset; after it the buffer length is 0, and a
\* read_all that directly follows a read_all returns the empty sequence.
DynamicBufferRoundTripStep ==
    dyn_out'.op = "read_all" =>
        /\ dyn_out'.data = dyn_written
        /\ Len(dyn_buf'.buffer) = 0
        /\ dyn_out.op = "read_all" => dyn_out'.data = <<>>
DynamicBufferRoundTrip == [][DynamicBufferRoundTripStep]_vars
WitnessDynamicBufferRoundTrip ==
    /\ dyn_out.op = "read_all"
    /\ Len(dyn_out.data) > MaxSliceLen
    /\ Len(dyn_buf.buffer) = 0

\* C13: a read_chunk that returns a chunk returns the bytes that the writes since
\* the chunk before stored, in order, each write cut to the free space there was
\* when it was made; a read_chunk that returns none takes nothing out; and the
\* number of available bytes is the number of such bytes and never above the capacity.
RingBufferFifoStep ==
    /\ ring_out'.op = "read_chunk" /\ ring_out'.some => ring_out'.chunk = ring_expected
    /\ ring_out'.op = "read_chunk" /\ ~ring_out'.some =>
         ring' = ring /\ Len(ring_expected) < ring_out'.min_size
    /\ occupied_len(ring') = Len(ring_expected')
    /\ occupied_len(ring') <= ring_capacity
RingBufferFifo == [][RingBufferFifoStep]_vars
WitnessRingBufferFifo ==
    /\ ring_out.op = "read_chunk" /\ ring_out.some
    /\ Len(ring_out.chunk) = ring_capacity
    /\ ring.read > ring_capacity

(***************************************************************************)
(* Conflict resolution and parsing                                         *)
(***************************************************************************)
\* the other patterns of the given type that share the trigger key of patterns[idx]
SharingKey(patterns, idx, type) ==
    {j \in 1..Len(patterns) : /\ j # idx
                              /\ patterns[j].type = type
                              /\ patterns[j].sequence[1] = patterns[idx].sequence[1]}

\* the table of the conflict strategies for the single-key pattern patterns[idx]
StrategyTable(patterns, idx) ==
    LET timeouts == {patterns[j].timeout_ms : j \in SharingKey(patterns, idx, "DoubleTap")}
    IN  IF SharingKey(patterns, idx, "Combo") # {} THEN FireOnRelease
        ELSE IF timeouts # {}
             THEN DelayedFire((CHOOSE m \in timeouts : \A t \in timeouts : t <= m) + buffer_ms)
             ELSE Immediate

Permuted(patterns, perm) == [i \in 1..Len(patterns) |-> patterns[perm[i]]]

\* C14: after analyze_and_mark_conflicts a single-key pattern that shares its
\* trigger key with a combo is FireOnRelease; otherwise one that shares it with
\* double-taps is DelayedFire with the largest of their timeouts plus buffer_ms;
\* otherwise it is Immediate; nothing else of any pattern changes; and analysing
\* the list in another order gives every pattern the same result.
ConflictResolutionTable ==
    res_out # <<>> =>
        /\ Len(res_out) = Len(res_in)
        /\ \A idx \in 1..Len(res_in) :
             res_out[idx] = IF res_in[idx].type = "Single"
                            THEN [res_in[idx] EXCEPT
                                     !.conflict_strategy = StrategyTable(res_in, idx)]
                            ELSE res_in[idx]
        /\ \A perm \in Perms(1..Len(res_in)) :
             analyze_and_mark_conflicts(Permuted(res_in, perm), buffer_ms)
                 = Permuted(res_out, perm)
WitnessConflictResolutionTable ==
    /\ Len(res_out) = 3
    /\ res_out[3].conflict_strategy = DelayedFire(DefaultDoubleTimeout + buffer_ms)
    /\ res_out[1].timeout_ms = DefaultDoubleTimeout
    /\ res_out[2].timeout_ms = 150

\* the keys a written key name stands for
Variants(name) ==
    CASE name \in {"Control", "Ctrl"} -> {"ControlLeft", "ControlRight"}
      [] name = "Shift" -> {"ShiftLeft", "ShiftRight"}
      [] name \in {"Alt", "Option"} -> {"Alt", "AltGr"}
      [] name = "Esc" -> {"Escape"}
      [] name \in {"ControlLeft", "ShiftRight", "F1"} -> {name}
      [] OTHER -> {}

FireOnReleaseAction(m, k) ==
    LET i == CHOOSE i \in 1..Len(m.patterns) :
                 /\ m.patterns[i].type = "Single" /\ m.patterns[i].sequence = <<k>>
                 /\ m.patterns[i].conflict_strategy = FireOnRelease
    IN m.patterns[i].action

\* C15: for a FireOnRelease single-key pattern of the matcher in use, the press of
\* its key does not complete it; the release of its key completes it, and the
\* engine returns its action, exactly when the latest press of the key came less
\* than 100 ms earlier and no pattern has completed and no other matcher was
\* installed since that press; a release at or after 100 ms returns nothing of it.
FireOnReleaseTimingStep ==
    \A k \in EventKeys(pattern_configs) :
        HasFireOnRelease(matcher, k) /\ last'.key = k =>
            /\ last'.op = "Press" => last'.immediate # FireOnReleaseAction(matcher, k)
            /\ last'.op = "Release" =>
                 /\ last'.immediate = FireOnReleaseAction(matcher, k)
                      <=> (fr_press[k] # NoTime /\ now' - fr_press[k] < HoldLimitMs)
                 /\ last'.immediate # None => last'.action = last'.immediate
FireOnReleaseTiming == [][FireOnReleaseTimingStep]_vars
WitnessFireOnReleaseTiming ==
    /\ last.op = "Release" /\ last.key = "ControlLeft"
    /\ last.immediate = "Stop" /\ last.action = "Stop"
    /\ last.state_before = "Paused"
    /\ now >= HoldLimitMs

\* matcher m has a delayed single-key pattern with the given action and, on the
\* same trigger key, a double-tap whose first press has not expired at time t
LiveFirstPress(m, action, t) ==
    \E i, j \in 1..Len(m.patterns) :
        /\ m.patterns[i].type = "Single" /\ m.patterns[i].action = action
        /\ m.patterns[i].conflict_strategy.kind = "DelayedFire"
        /\ m.patterns[j].type = "DoubleTap"
        /\ m.patterns[j].sequence = m.patterns[i].sequence
        /\ m.patterns[j].first_press # NoTime
        /\ t - m.patterns[j].first_press <= m.patterns[j].timeout_ms

\* C19: when a call returns the delayed action of a single-key pattern of the
\* matcher in use, no double-tap of that matcher on the same trigger key holds a
\* first press that has not expired: in a poll the matcher as it is, in a key
\* event the matcher as the event leaves it.
NoPrematureSingleFireStep ==
    last'.fired_id # -1 /\ last'.immediate = None =>
        IF last'.op = "Poll"
        THEN last'.fired_id \in Range(matcher.pending_delayed_ids)
                 => ~LiveFirstPress(matcher, last'.action, now')
        ELSE \A order \in EventOrders(matcher, [type |-> last'.op, key |-> last'.key], now') :
                 LET r == Matcher_process_event(matcher, order,
                              [type |-> last'.op, key |-> last'.key], now', delayed_counter)
                 IN  r.immediate = None /\ last'.fired_id \in Range(r.matcher.pending_delayed_ids)
                         => ~LiveFirstPress(r.matcher, last'.action, now')
NoPrematureSingleFire == [][NoPrematureSingleFireStep]_vars

\* C20: when process_event_with_time returns the action of a pattern that
\* completed on the event, no delayed action is pending in the engine afterwards.
CompleteCancelsDelayedStep ==
    last'.op \in {"Press", "Release"} /\ last'.immediate # None => pending_delayed' = <<>>
CompleteCancelsDelayed == [][CompleteCancelsDelayedStep]_vars

(***************************************************************************)
(* Registration and initialisation                                         *)
(***************************************************************************)
\* C16: a register call whose component's identity tag is present returns an error
\* and changes neither map; every tag maps to the first component that was
\* registered under it; and get_by_name of the name of a registered component
\* returns that component.
UniqueRegistrationStep ==
    /\ components[register_out'.component.tag] # NoComponent =>
         /\ register_out'.result = "Err"
         /\ components' = components
         /\ components_by_name' = components_by_name
    /\ components[register_out'.component.tag] = NoComponent => register_out'.result = "Ok"
    /\ components' = first_by_tag'
    /\ \A t \in TypeTags :
         components'[t] # NoComponent =>
             get_by_name([components |-> components',
                          components_by_name |-> components_by_name'],
                         components'[t].name) = components'[t]
UniqueRegistration == [][UniqueRegistrationStep]_vars

Configured(p) ==
    [type |-> p.type, sequence |-> p.sequence, timeout_ms |-> p.timeout_ms,
     action |-> p.action, conflict_strategy |-> p.conflict_strategy]

ConfiguredSet(patterns) == {Configured(patterns[i]) : i \in DOMAIN patterns}

\* the configurations whose action is available in `state`
AvailableConfigs(configs, state) ==
    SelectSeq(configs, LAMBDA c : c.action \in Range(get_available_actions(state)))

\* C21: in every reachable state of the engine, from construction onwards, the
\* patterns of the matcher are exactly the patterns parsed from the configurations
\* whose action is available in current_state, with the conflict strategies
\* computed over that filtered set.
PatternSetFollowsState ==
    ConfiguredSet(matcher.patterns) =
        ConfiguredSet(analyze_and_mark_conflicts(
            parse_all(AvailableConfigs(pattern_configs, current_state)), buffer_ms))

KeyEvents(configs) ==
    {[type |-> ty, key |-> k] : ty \in {"Press", "Release"}, k \in EventKeys(configs)}

\* C22: for the matcher of every reachable state, every key event and every time
\* the event can come at, ShortcutMatcher::process_event does not return both an
\* immediate action and a non-empty list of new delayed actions, so the branch of
\* process_event_with_time that drops the event is not taken.
ImmediateDelayedExclusive ==
    \A event \in KeyEvents(pattern_configs), dt \in Elapsed :
        \A order \in EventOrders(matcher, event, now + dt) :
            LET r == Matcher_process_event(matcher, order, event, now + dt, delayed_counter)
            IN ~(r.immediate # None /\ r.delayed # <<>>)
\* an event completed a pattern, cancelling delayed actions armed before, after
\* an event that armed a delayed action and completed nothing
WitnessImmediateDelayedExclusive ==
    /\ last.immediate # None /\ last.cancelled # {}
    /\ prev.completed /\ prev.minted = {}
    /\ delayed_counter > 0

PendingIds(pending) == {pending[i].id : i \in DOMAIN pending}

\* the entries of the list before the call that have left it without being cancelled
Left == {d \in Range(pending_delayed) :
            d.id \notin PendingIds(pending_delayed') /\ d.id \notin last'.cancelled}

\* one call of poll_delayed_action or process_event_with_time
DelayedFireStep ==
    \* the ids in the list are those before the call and ids not handed out before
    /\ PendingIds(pending_delayed') \subseteq
           PendingIds(pending_delayed) \cup (delayed_counter .. delayed_counter' - 1)
    /\ \A d \in Range(pending_delayed) : d.id < delayed_counter
    \* at most one entry is taken, and none before its trigger_at
    /\ Cardinality(Left) <= 1
    /\ \A d \in Left : d.trigger_at <= now' /\ last'.fired_id = d.id
    /\ last'.fired_id # -1 =>
           /\ last'.fired_id \notin PendingIds(pending_delayed')
           /\ \E d \in Range(pending_delayed) : d.id = last'.fired_id /\ d.trigger_at <= now'

DelayedPending(id) ==
    \E d \in Range(pending_delayed) : d.id = id /\ d.trigger_at <= MaxTime
DelayedReturned(id) == last.fired_id = id /\ last.immediate = None /\ last.action # None
DelayedCancelled(id) == id \in last.cancelled

DelayedFireSafety == [][DelayedFireStep]_vars

\* C23: a delayed action is returned at most once and never by a call earlier than
\* its trigger_at, a call returns at most one action, and a pending delayed action
\* is eventually returned or cancelled while the polling goes on.
DelayedFireOnce ==
    /\ [][DelayedFireStep]_vars
    /\ \A id \in 0..MaxDelayedIds :
           DelayedPending(id) ~> (DelayedReturned(id) \/ DelayedCancelled(id))

\* the steps PollCall describes are the steps of PollDelayed
PollCallIsPollDelayed == [][PollDelayed <=> PollCall]_vars

\* C24: when several pending delayed actions have trigger_at <= now at a poll, the
\* poll removes and returns the one with the smallest trigger_at.
EarliestExpiredFirstStep ==
    last'.op = "Poll" /\ last'.fired_id # -1 =>
        \A d, e \in Range(pending_delayed) :
            d.id = last'.fired_id /\ e.trigger_at <= now' => d.trigger_at <= e.trigger_at
EarliestExpiredFirst == [][EarliestExpiredFirstStep]_vars

(***************************************************************************)
(* Recorder: errors of Pause, the flags, the stream, the input callback    *)
(***************************************************************************)
PauseWhilePausedStep ==
    (WorkerAnswered("PauseRecording") /\ rec_state.is_paused)
    => /\ handled'.response = ErrorResponse("AlreadyPaused")
       /\ rec_state'.segments = rec_state.segments
       /\ rec_state'.is_paused
       /\ shared_state' = shared_state
\* C25: a PauseRecording handled while the worker is paused is answered with
\* Error(AlreadyPaused) and leaves the segments, the paused state and both flags
\* as they were.
PauseWhilePaused == [][PauseWhilePausedStep]_vars

\* C28: after every command the worker has handled, failed commands included,
\* is_recording() is true exactly when an input stream exists and is_paused()
\* exactly when the worker is paused; the flags are never both true and no stream
\* exists while the worker is paused.
FlagsMirrorWorker ==
    /\ shared_state.is_recording <=> rec_state.stream
    /\ shared_state.is_paused <=> rec_state.is_paused
    /\ ~(shared_state.is_recording /\ shared_state.is_paused)
    /\ ~(rec_state.stream /\ rec_state.is_paused)
\* a Resume that failed has left the worker paused, with both flags as they were
WitnessFlagsMirrorWorker ==
    /\ handled.cmd = "ResumeRecording" /\ handled.response.kind = "Error"
    /\ handled.response.error # "NotPaused"
    /\ rec_state.is_paused /\ shared_state.is_paused /\ ~shared_state.is_recording

\* C26: when the first attempt to build the input stream fails, exactly one
\* further attempt is made, after a wait of 100 ms, and the call reports an error
\* only if that second attempt fails as well.
StreamRetryOnce ==
    (retry_out.done /\ retry_in[1] # "ok")
    => /\ retry_out.attempts = 2
       /\ retry_out.sleeps = 1
       /\ retry_out.result # "Ok" <=> retry_in[2] # "ok"

\* the step in which the callback gets past buffer_clone.lock()
CallbackPastLock == cb_pc = "lock" /\ cb_pc' # "lock"
\* C27: the input callback never waits for the lock of the DynamicBuffer: when
\* the worker holds the lock as the callback asks for it, the callback goes on
\* without writing its chunk to the DynamicBuffer, writes the chunk to the ring
\* buffer and returns.
NonBlockingCallback ==
    /\ [](cb_pc = "lock" => ENABLED <<CallbackLock>>_vars)
    /\ [][CallbackPastLock /\ cb_contended => dyn_buf' = dyn_buf]_vars
    /\ [][cb_pc = "ring" /\ cb_pc' = "idle" => ring' = RingBuffer_write(ring, cb_chunk)]_vars


\* the worker has left its loop only with both flags cleared, and a handle that is
\* dropped after shutdown() has returned sends nothing and has no thread to join
ShutdownSafetyStep ==
    /\ ~worker_alive' => shared_state' = SharedState(FALSE, FALSE)
    /\ (worker_alive /\ ~worker_alive') =>
           /\ Head(command_ch).cmd = "Shutdown"
           /\ response_ch' = response_ch
    /\ (~dropped /\ dropped' /\ shutdown_pc = "returned") =>
           /\ ~worker_alive'
           /\ command_ch' = command_ch
RecorderState ==
    IF rec_state.is_paused THEN "Paused"
    ELSE IF rec_state.stream THEN "Active" ELSE "Idle"

\* C29: whenever no handler call is in progress the state of the engine and the
\* state of the recorder correspond: Idle with neither recording nor paused,
\* Active with recording, Paused with paused; stated here for the runs in which
\* no recorder call has timed out.
EngineRecorderAgree ==
    (ctl = None /\ ~timed_out) => current_state = RecorderState

\* the handler handle_action selects for an action, and the command it sends
HandlerOf(action) ==
    CASE action = "Start" -> "handle_start"
      [] action = "Stop" -> "handle_stop"
      [] action = "Cancel" -> "handle_cancel"
      [] OTHER -> IF shared_state.is_paused THEN "handle_resume" ELSE "handle_pause"
CommandOf(handler) ==
    CASE handler = "handle_start" -> "StartRecording"
      [] handler = "handle_pause" -> "PauseRecording"
      [] handler = "handle_resume" -> "ResumeRecording"
      [] OTHER -> "StopRecording"

SerializedStep ==
    \* while a handler runs no key event and no poll is processed
    /\ ctl # None => UNCHANGED engineVars
    \* an emitted action finds no handler running and the audio lock free; its own
    \* handler is entered, with its command the next one the recorder is sent
    /\ (engineVars' # engineVars /\ last'.action # None) =>
          /\ ctl = None /\ ~audio_locked
          /\ ctl' = HandlerOf(last'.action)
          /\ caller'.origin = ctl' /\ caller'.cmd = CommandOf(ctl')
          /\ command_ch' = Append(command_ch, caller')
    \* nothing else enters or leaves a handler
    /\ ctl' # ctl => (ctl = None /\ last'.action # None /\ engineVars' # engineVars) \/ ctl' = None
\* C30: key events and polls are processed one at a time under the write lock of
\* the engine, and the handler is called under that lock: an action reaches its
\* handler before the next event or poll is processed, so the actions reach the
\* handler one at a time and in the order in which the engine emitted them.
SerializedEvents == [][SerializedStep]_vars
\* a second action has reached its handler, after the first handler returned Ok,
\* while the worker has yet to answer
WitnessSerializedEvents ==
    /\ ctl = "handle_pause" /\ last.action = "Pause" /\ last.state_before = "Active"
    /\ ok_calls["handle_start"] = 1
    /\ command_ch # <<>>


(***************************************************************************)
(* Double-tap window and combo progress                                    *)
(***************************************************************************)
\* the press at time t is at most timeout_ms after the first press p has recorded
WithinWindow(p, t) ==
    p.first_press # NoTime /\ duration_since(t, p.first_press) <= p.timeout_ms

DoubleTapWindowStep ==
    (last' # last /\ last'.op = "Press")
    => LET k == last'.key
           t == now'
           D == DoubleTapsOn(matcher, k)
           W == {i \in D : WithinWindow(matcher.patterns[i], t)}
       IN /\ W # {} => last'.immediate \in {matcher.patterns[i].action : i \in W}
          /\ (D # {} /\ W = {}) =>
                /\ last'.immediate = None
                /\ ~last'.rebuilt =>
                      \A i \in D : /\ matcher'.patterns[i].first_press = t
                                   /\ i \in matcher'.active_patterns
                                   /\ WithinWindow(matcher'.patterns[i], t + matcher.patterns[i].timeout_ms)
                                   /\ ~is_expired(matcher'.patterns[i], t + matcher.patterns[i].timeout_ms)
                                   /\ is_expired(matcher'.patterns[i], t + matcher.patterns[i].timeout_ms + 1)
\* C39: a press of the key of a double-tap pattern completes a double-tap on that
\* key if and only if it arrives at most timeout_ms after the first press the
\* pattern has recorded (the bound is inclusive, in the pattern and in the expiry
\* cleanup of the matcher alike); otherwise the press is recorded as the new first
\* press, from which the window of a further press is counted.
DoubleTapWindow == [][DoubleTapWindowStep]_vars

\* a second press that came too late has become the first press of the pattern
WitnessDoubleTapWindow ==
    /\ last.op = "Press" /\ last.second_tap /\ last.immediate = None /\ ~last.rebuilt
    /\ \E i \in DoubleTapsOn(matcher, last.key) :
          /\ matcher.patterns[i].first_press = now
          /\ now > matcher.patterns[i].timeout_ms

CombosOf(m) == {i \in 1..Len(m.patterns) : m.patterns[i].type = "Combo"}

\* the keys of the first n positions of the sequence of p
Prefix(p, n) == {p.sequence[j] : j \in 1..n}

\* the call reaches the pattern: it is active, or the pressed key is its first key
Reached(m, i, op, k) ==
    i \in m.active_patterns \/ (op = "Press" /\ get_trigger_key(m.patterns[i]) = k)

NextExpected(p, k) == p.current_index < Len(p.sequence) /\ k = p.sequence[p.current_index + 1]

CompletesCombo(m, i, op, k) ==
    /\ op = "Press" /\ Reached(m, i, op, k)
    /\ NextExpected(m.patterns[i], k)
    /\ m.patterns[i].current_index + 1 = Len(m.patterns[i].sequence)

\* the progress of every combo is the keys pressed in sequence order and still held
ComboProgress ==
    \A i \in CombosOf(matcher) :
       /\ matcher.patterns[i].held_keys = Prefix(matcher.patterns[i], matcher.patterns[i].current_index)
       /\ matcher.patterns[i].current_index < Len(matcher.patterns[i].sequence)
       /\ i \notin matcher.active_patterns => matcher.patterns[i].current_index = 0

ComboCompletionStep ==
    (last' # last /\ last'.op \in {"Press", "Release"})
    => LET k == last'.key
           op == last'.op
           m == matcher
           others == {m.patterns[i].action : i \in (1..Len(m.patterns)) \ CombosOf(m)}
           completing == {i \in CombosOf(m) : CompletesCombo(m, i, op, k)}
       IN /\ completing # {} => last'.immediate \in {m.patterns[i].action : i \in completing}
          /\ (last'.immediate # None /\ last'.immediate \notin others)
                => \E i \in CombosOf(m) :
                      CompletesCombo(m, i, op, k) /\ last'.immediate = m.patterns[i].action
          /\ (last'.immediate = None /\ ~last'.rebuilt)
                => \A i \in CombosOf(m) :
                      LET p == m.patterns[i]
                          q == matcher'.patterns[i]
                      IN CASE ~Reached(m, i, op, k) -> q = p
                           [] op = "Press" /\ NextExpected(p, k) ->
                                /\ q.current_index = p.current_index + 1
                                /\ q.held_keys = p.held_keys \cup {k}
                           [] op = "Press" /\ k \in p.held_keys -> q = p
                           [] op = "Press" -> q.current_index = 0 /\ q.held_keys = {}
                           [] op = "Release" /\ k \in Prefix(p, p.current_index) ->
                                q.current_index = 0 /\ q.held_keys = {}
                           [] OTHER -> q = p
\* C40: a combo returns its action exactly on the press that completes its keys in
\* sequence order since its last reset; the press of a key that is neither the next
\* expected key nor held, and the release of a key of the sequence that was
\* already pressed, reset its progress to zero; the repeated press of a held key
\* neither advances nor resets it.
ComboCompletion == ComboProgress /\ [][ComboCompletionStep]_vars

\* the three keys pressed in order have stopped a recording that they had started
WitnessComboCompletion ==
    /\ last.op = "Press" /\ last.key = "F1" /\ last.immediate = "Stop"
    /\ last.state_before = "Active"

(***************************************************************************)
(* Order of initialisation                                                 *)
(***************************************************************************)
\* the sequential components that wait for their turn are in registration order
InRegistrationOrder(left) ==
    \A i, j \in 1..Len(left) : i < j => components[left[i]].id < components[left[j]].id

\* C33: initialize_all initialises the Sequential components one at a time, in the
\* order in which they were registered, and none of them before the tasks of all
\* Parallel components have been joined.
SequentialInitOrder ==
    /\ init_pc \in {"parallel", "sequential"} => InRegistrationOrder(sequential_left)
    /\ init_pc \in {"idle", "parallel"} =>
           \A t \in Registered("Sequential") : init_status[t] = NotRun
    /\ init_pc \in {"sequential", "returned"} =>
           \A t \in Registered("Parallel") : init_status[t] # NotRun
    /\ init_pc = "sequential" =>
           \A t \in Registered("Sequential") :
               init_status[t] = NotRun <=> \E i \in 1..Len(sequential_left) : sequential_left[i] = t

(***************************************************************************)
(* Properties of the SmartCollector.                                       *)
(***************************************************************************)
\* the chunk of the step is silent
SilentChunk(chunk) == calculate_rms(chunk) < SPEECH_THRESHOLD

\* the post-speech buffer as the call sees it once the chunk is pushed
PostWith(c, chunk) == Append(c.post_speech_buffer, chunk)

SegmentEmissionStep ==
    LET c == collector
        chunk == collector_out'.chunk
        emitted == collector_out'.segment # NoSegment
        due == /\ c.speech_detected
               /\ SilentChunk(chunk)
               /\ total_len(PostWith(c, chunk)) >= post_speech_buffer_max_bytes
    IN  /\ emitted <=> due
        /\ emitted =>
             /\ collector_out'.segment =
                    c.pre_speech_buffer \o c.accumulated_speech \o PostWith(c, chunk)
             /\ collector' = SmartCollector_new
        /\ ~emitted /\ c.speech_detected /\ SilentChunk(chunk) =>
             /\ collector'.post_speech_buffer = PostWith(c, chunk)
             /\ collector'.silence_start
             /\ collector'.accumulated_speech = c.accumulated_speech

\* C36: process_chunk returns a segment exactly when speech was detected,
\* the chunk is silent and the post-speech buffer with this chunk holds at
\* least post_speech_buffer_max_bytes; the segment is the pre-speech
\* buffer, the accumulated speech and the post-speech buffer in that
\* order, and the collector is reset.
SegmentEmission == [][SegmentEmissionStep]_vars

WitnessSegmentEmission ==
    /\ collector_out.segment # NoSegment
    /\ total_len(collector_out.segment) > post_speech_buffer_max_bytes
    /\ collector = SmartCollector_new
    /\ chunks_fed >= 3

RECURSIVE IsSuffix(_, _)
IsSuffix(s, t) == s = t \/ (t # <<>> /\ IsSuffix(s, Tail(t)))

PreSpeechStep ==
    LET c == collector
        chunk == collector_out'.chunk
        pushed == Append(c.pre_speech_buffer, chunk)
        kept == collector'.pre_speech_buffer
    IN  ~c.speech_detected /\ SilentChunk(chunk) =>
          /\ IsSuffix(kept, pushed)
          /\ total_len(kept) <= pre_speech_buffer_max_bytes
          \* nothing that fits was dropped
          /\ kept # pushed =>
               total_len(SubSeq(pushed, Len(pushed) - Len(kept), Len(pushed)))
                   > pre_speech_buffer_max_bytes

\* C37: the pre-speech buffer never holds more than
\* pre_speech_buffer_max_bytes after a call; the oldest chunks are the
\* ones dropped, and only as many as needed.
PreSpeechBound ==
    /\ total_len(collector.pre_speech_buffer) <= pre_speech_buffer_max_bytes
    /\ [][PreSpeechStep]_vars

WitnessPreSpeechBound ==
    /\ ~collector.speech_detected
    /\ chunks_fed >= 3
    /\ Len(collector.pre_speech_buffer) = 2
    /\ total_len(collector.pre_speech_buffer) > 38400

(***************************************************************************)
(* Properties of the real-time observer.                                   *)
(***************************************************************************)
ChunkBoundsStep ==
    \A w \in WorkerIds :
        workers[w].pc = "lock" /\ workers'[w].pc # "lock" =>
            /\ collector_out'.chunk.len >= MIN_CHUNK_SIZE
            /\ collector_out'.chunk.len <= MAX_CHUNK_SIZE

\* C35: every chunk the observer worker passes to the collector has at
\* least MIN_CHUNK_SIZE and at most MAX_CHUNK_SIZE bytes.
ObserverChunkBounds == [][ChunkBoundsStep]_vars

\* the lower bound alone
ChunkLowerBoundStep ==
    \A w \in WorkerIds :
        workers[w].pc = "lock" /\ workers'[w].pc # "lock" =>
            collector_out'.chunk.len >= MIN_CHUNK_SIZE

ObserverChunkLowerBound == [][ChunkLowerBoundStep]_vars

\* a stop or cancel hook of thread t returns in this step
TeardownReturns(t) ==
    /\ hooks[t].op \in {"stop", "cancel"}
    /\ hooks[t].pc # "idle"
    /\ hooks'[t].pc = "idle"

TeardownStep ==
    \A t \in HookThreads :
        TeardownReturns(t) =>
            \* the worker has exited, the collector is empty
            /\ \A w \in WorkerIds : workers'[w].pc \in {"unborn", "exited"}
            /\ collector' = SmartCollector_new
            /\ collector_lock' = Unlocked
            \* a later on_start spawns a worker
            /\ (\A u \in HookThreads : hooks'[u].op # "start") =>
                 ~obs_running' /\ thread_handle' = NoWorker
            \* on_stop transcribes exactly the residual speech, on_cancel nothing
            /\ hook_out'.op = "stop" =>
                 /\ (hook_out'.segment # NoSegment) <=> hook_out'.had_speech
                 /\ hook_out'.segment # NoSegment =>
                      transcribed' = [by |-> t, segment |-> hook_out'.segment]
            /\ hook_out'.op = "cancel" =>
                 /\ hook_out'.segment = NoSegment
                 /\ transcribed' = transcribed

\* a worker that has exited stays so, and reads and transcribes nothing
ExitedStaysStep ==
    \A w \in WorkerIds : workers[w].pc = "exited" => workers'[w] = workers[w]

\* C34: when on_stop or on_cancel returns, the worker has exited, the
\* collector is in its initial state and running is false, so that a later
\* on_start spawns a fresh worker; on_stop transcribes the residual
\* segment exactly when the collector held accumulated speech, on_cancel
\* never transcribes.
ObserverTeardown == [][TeardownStep /\ ExitedStaysStep]_vars

(***************************************************************************)
(* Properties of the ducking state machine.                                *)
(***************************************************************************)
\* the requests that are changing the volume
Performing == {r \in DuckThreads : requests[r].pc \in {"perform", "set", "finish"}}

\* the request that makes this step
Stepping(r) == requests'[r] # requests[r]

DuckEdges ==
    {<<"Normal", "Reducing">>, <<"Reducing", "Reduced">>,
     <<"Reduced", "Restoring">>, <<"Restoring", "Normal">>}
DuckRollbacks == {<<"Reducing", "Normal">>, <<"Restoring", "Reduced">>}

DuckingStep ==
    /\ volume_state' # volume_state =>
         \/ <<volume_state, volume_state'>> \in DuckEdges
         \/ /\ <<volume_state, volume_state'>> \in DuckRollbacks
            /\ \E r \in DuckThreads : Stepping(r) /\ requests[r].pc = "finish" /\ requests[r].failed
    \* only the request in progress touches the volume and the stored original
    /\ spotify_volume' # spotify_volume \/ original_volume' # original_volume =>
         \E r \in Performing : Stepping(r)
    \* a request that found nothing to do changed nothing
    /\ \A r \in DuckThreads :
         /\ requests[r].pc = "load"
         /\ \/ requests[r].level = "Reduced" /\ volume_state \in {"Reduced", "Reducing"}
            \/ requests[r].level = "Normal" /\ volume_state \in {"Normal", "Restoring"}
         /\ Stepping(r)
         => /\ requests'[r].pc = "idle"
            /\ ~duck_out'.request.touched
            /\ duck_out'.thread = r
            /\ UNCHANGED <<volume_state, spotify_volume, original_volume>>

\* C38: volume_state changes only along Normal, Reducing, Reduced,
\* Restoring, Normal, or back from Reducing to Normal and from Restoring to
\* Reduced when the volume operation failed; at most one request is
\* changing the volume at a time; a reduce request that finds Reduced or
\* Reducing and a restore request that finds Normal or Restoring change
\* neither the state nor the volume.
DuckingStateMachine ==
    /\ Cardinality(Performing) <= 1
    /\ (Performing # {} <=> volume_state \in {"Reducing", "Restoring"})
    /\ [][DuckingStep]_vars

WitnessDuckingStateMachine ==
    /\ volume_state = "Restoring"
    /\ Cardinality(Performing) = 1
    /\ \E r \in DuckThreads :
         requests[r].pc = "load" /\ requests[r].level = "Reduced" /\ requests[r].found = "Restoring"
    /\ duck_out.request.level = "Normal" /\ duck_out.request.found = "Restoring"
    /\ ~duck_out.request.touched

(***************************************************************************)
(* Properties of the pipeline's threads and locks.                         *)
(***************************************************************************)
\* the thread that runs the handler, under the name it has as a lock owner
PipelineThreads == {"handler", "shutdown", "task"} \cup {Owner(w) : w \in WorkerIds}

\* the threads a thread waits for: the owner of the lock it is about to take,
\* or the thread it joins
WaitsFor(t) ==
    IF t = "handler"
    THEN (IF handler_call.pc \in {"lock_audio"} \/ (handler_call.pc = "begin"
                                                  /\ handler_call.action \in {"Start", "Stop"})
          THEN {audio_lock} ELSE {})
         \cup (IF hooks[t].pc \in {"store_handle", "take"} THEN {handle_lock} ELSE {})
         \cup (IF hooks[t].pc = "join" THEN {Owner(hooks[t].handle)} ELSE {})
         \cup (IF hooks[t].pc = "collector" THEN {collector_lock} ELSE {})
         \cup (IF hooks[t].pc = "transcribe" THEN {asr_lock} ELSE {})
    ELSE IF t = "shutdown"
    THEN (IF shut_pc = "lock_audio" THEN {audio_lock} ELSE {})
         \cup (IF shut_pc = "model" THEN {asr_lock} ELSE {})
         \cup (IF hooks[t].pc \in {"store_handle", "take"} THEN {handle_lock} ELSE {})
         \cup (IF hooks[t].pc = "join" THEN {Owner(hooks[t].handle)} ELSE {})
         \cup (IF hooks[t].pc = "collector" THEN {collector_lock} ELSE {})
         \cup (IF hooks[t].pc = "transcribe" THEN {asr_lock} ELSE {})
    ELSE IF t = "task"
    THEN (IF asr_task = "spawned" THEN {asr_lock} ELSE {})
    ELSE LET w == CHOOSE v \in WorkerIds : Owner(v) = t
         IN  (IF workers[w].pc = "lock" THEN {collector_lock} ELSE {})
             \cup (IF workers[w].pc = "transcribe" THEN {asr_lock} ELSE {})

RECURSIVE ReachableFrom(_, _)
\* the threads reached from the set S along WaitsFor in at most n steps
ReachableFrom(S, n) ==
    IF n = 0 THEN S
    ELSE ReachableFrom(S \cup UNION {WaitsFor(t) \cap PipelineThreads : t \in S}, n - 1)

\* no thread waits, directly or through others, for itself
NoWaitCycle ==
    \A t \in PipelineThreads :
        t \notin ReachableFrom(WaitsFor(t) \cap PipelineThreads, Cardinality(PipelineThreads))

\* C31: no thread of the pipeline waits for a lock or a thread that in
\* turn waits for it, and every handler call and the shutdown call
\* eventually return.
PipelineDeadlockFree ==
    /\ []NoWaitCycle
    /\ (handler_call.pc # "idle") ~> (handler_call.pc = "idle")
    /\ (shut_pc # "none") ~> (shut_pc = "returned")

\* every handler call eventually returns
HandlerCallsReturn == (handler_call.pc # "idle") ~> (handler_call.pc = "idle")
====
